---- MODULE Spec2Model ----
(***************************************************************************)
(* The telemetry instrumentation layer of the storefront: the              *)
(* EmbraceService singleton (src/src/services/embrace.ts) and the network  *)
(* wrapper APIService.executeRequest (src/unnamed/part_004).               *)
(*                                                                         *)
(* The backend SDK, the tracer and the span objects are external: the      *)
(* model keeps what they were asked to do (the spans that were opened,     *)
(* their attributes, status and end; the calls the SDK received) and lets  *)
(* each primitive throw when the environment says so.  One step of the     *)
(* model is one synchronous run of a handler between two await points; the *)
(* clock `now` (Date.now()) only moves between steps.                      *)
(***************************************************************************)
EXTENDS Integers, Sequences, FiniteSets, TLC

VARIABLES
    isInitialized,      \* EmbraceService.isInitialized
    tracerProvider,     \* EmbraceService.tracerProvider # null
    tracer,             \* EmbraceService.tracer # null
    activeSpans,        \* EmbraceService.activeSpans : handle -> index in spans
    spans,              \* the Span objects the tracer has opened, in order
    sdkLog,             \* calls received by the backend SDK, in order
    timers,             \* the setTimeout callbacks, pending or fired
    randoms,            \* the values Math.random() has returned, in order
    escaped,            \* the errors that left a service method uncaught
    ciMode,             \* EMBRACE_CONFIG.ciMode
    now,                \* Date.now()
    initCalls,          \* number of initialize() calls so far
    initOk,             \* history: some initialize() call has returned true
    calls,              \* number of direct calls of telemetry primitives so far
    requestIdCounter,   \* APIService.requestIdCounter
    inv,                \* the executeRequest invocations
    issued,             \* history: the handles start calls returned
    last,               \* history: the last direct call of the span registry
    items,              \* useCartStore.items
    checkout,           \* CheckoutScreen.processOrder: where it stands
    auth                \* useAuthStore: authState and the login in flight

\* The state of the application around the service.
shop == <<items, checkout, auth>>

vars == <<isInitialized, tracerProvider, tracer, activeSpans, spans, sdkLog,
          timers, randoms, escaped, ciMode, now, initCalls, initOk, calls, requestIdCounter, inv,
          issued, last, shop>>

-----------------------------------------------------------------------------
(* Bounds of the model *)

MaxTime == 1
MaxSpans == 2
MaxInv == 2
MaxInit == 2
MaxCalls == 3
MaxProbes == 1
MaxCart == 2

(* Program constants *)

crashProbabilityThreshold == 79
CrashDelayBase == 20000
CrashDelaySpread == 15000
CrashGrace == 500

NULL == "<null>"

API_BASE_URL == "https://api.embrace-ecommerce.com/v1"

-----------------------------------------------------------------------------
(* JavaScript values, as far as JSON.stringify and error.message see them *)

JUndefined == [t |-> "undefined", n |-> 0, s |-> "", items |-> <<>>]
JNull == [t |-> "null", n |-> 0, s |-> "", items |-> <<>>]
JNum(k) == [t |-> "number", n |-> k, s |-> "", items |-> <<>>]
JStr(str) == [t |-> "string", n |-> 0, s |-> str, items |-> <<>>]
JArr(seq) == [t |-> "array", n |-> 0, s |-> "", items |-> seq]
JErr(msg) == [t |-> "Error", n |-> 0, s |-> msg, items |-> <<>>]

RECURSIVE JoinItems(_)
RECURSIVE JSONStringify(_)
\* JSON.stringify(v): the text, or NULL where JavaScript returns undefined.
\* An Error object has no enumerable own property and serialises as {}.
JSONStringify(v) ==
    CASE v.t = "undefined" -> NULL
      [] v.t = "null"      -> "null"
      [] v.t = "number"    -> ToString(v.n)
      [] v.t = "string"    -> "\"" \o v.s \o "\""
      [] v.t = "array"     -> "[" \o JoinItems(v.items) \o "]"
      [] OTHER             -> "{}"

\* Inside an array undefined serialises as null.
JoinItems(seq) ==
    IF seq = <<>> THEN ""
    ELSE LET h == JSONStringify(Head(seq))
             hs == IF h = NULL THEN "null" ELSE h
         IN  IF Len(seq) = 1 THEN hs ELSE hs \o "," \o JoinItems(Tail(seq))

\* JavaScript truthiness of a value (options.body ? ... : 0).
Truthy(v) ==
    CASE v.t = "undefined" -> FALSE
      [] v.t = "null"      -> FALSE
      [] v.t = "number"    -> v.n # 0
      [] v.t = "string"    -> v.s # ""
      [] OTHER             -> TRUE

TypeErrorLength == JErr("Cannot read property 'length' of undefined")

-----------------------------------------------------------------------------
(* Inputs *)

\* Session property keys and values written by direct callers: a key that
\* initialize() seeds and one that it does not.
PropKeys == {"app_version", "cart_item_count"}
PropValues == {"1", "2"}

\* What direct callers pass to the log, span and user methods.
LogProperties == << <<"test_type", "manual_crash">> >>
NetworkParams ==
    [url |-> API_BASE_URL \o "/products", method |-> "GET",
     startTime |-> 0, endTime |-> 1, statusCode |-> 200, bytesSent |-> 0,
     bytesReceived |-> 0]
NetworkErrorParams ==
    [url |-> API_BASE_URL \o "/products", method |-> "GET",
     startTime |-> 0, endTime |-> 1, errorType |-> "api_error",
     errorMessage |-> "Payment declined"]

\* startSpan names used by direct callers, and screen names.
SpanNames == {"test_user_action"}
ScreenNames == {"Profile"}
AttrInputs == {<< <<"screen", "ProfileScreen">>, <<"action", "test_span">> >>}

\* Request descriptors {endpoint, method, body?}.
Descriptors ==
    { [endpoint |-> "/products", method |-> "GET", body |-> JUndefined],
      [endpoint |-> "/orders", method |-> "POST", body |-> JArr(<<JNum(7)>>)] }

\* What the wrapped operation settles with.
Resolve(v) == [kind |-> "resolve", value |-> v]
Reject(e) == [kind |-> "reject", value |-> e]
Outcomes ==
    { Resolve(JArr(<<JNum(1), JNum(2)>>)), Resolve(JUndefined),
      Reject(JErr("Payment declined")) }
Pending == [kind |-> "pending", value |-> JUndefined]

\* The external primitive that throws during a step ("none": nothing throws).
Faults ==
    { "none", "initialize", "tracerProvider", "getTracer", "addBreadcrumb",
      "addSessionProperty", "startSpan", "startView", "setAttribute",
      "setStatus", "end", "recordNetworkRequest", "logNetworkClientError" }

\* Math.random() returns r / RandomGrain for some r in 0 .. RandomGrain - 1;
\* the draws for the roll are the ends of its range and the two around the
\* threshold, the draws for the delay the ends of its range.
RandomGrain == 1000
RollDraws == {0, 799, 800, RandomGrain - 1}
DelayDraws == {0, RandomGrain - 1}

-----------------------------------------------------------------------------
(* EmbraceService: its methods, as functions of the service state W they  *)
(* read and change (the time `now` is the step's Date.now())               *)

World ==
    [isInitialized |-> isInitialized, tracerProvider |-> tracerProvider,
     tracer |-> tracer, activeSpans |-> activeSpans, spans |-> spans,
     sdkLog |-> sdkLog, timers |-> timers, randoms |-> randoms,
     escaped |-> escaped]

\* A call of a backend SDK function: the SDK receives it, and it throws when
\* the environment makes that function fail.
SdkCall(W, name, args, bad) ==
    [W EXCEPT !.sdkLog = Append(@, [call |-> name, args |-> args,
                                    threw |-> (bad = name)])]

\* A catch block that throws the error on to the caller.
CatchRethrow(W, error) ==
    [W EXCEPT !.escaped = Append(@, [error |-> error, to |-> "caller"])]

\* catch (error) { console.warn(..., error) }: the error goes no further.
Catch(W, error) ==
    W

\* The service call that took W0 to W1 threw to its caller, and what it threw.
Raised(W0, W1) == Len(W1.escaped) > Len(W0.escaped)
Thrown(W) == JErr(W.escaped[Len(W.escaped)].error)

\* try { <SDK call> } catch (error) { console.warn(...) }
TryCall(W, name, args, bad) ==
    IF bad = name THEN Catch(SdkCall(W, name, args, bad), name)
    ELSE SdkCall(W, name, args, bad)

addBreadcrumb(W, message, bad) ==
    IF ~W.isInitialized THEN W
    ELSE TryCall(W, "addBreadcrumb", <<message>>, bad)

\* An addSessionProperty that forgets the permanence it was given.
addSessionPropertyImpermanent(W, key, value, permanent, bad) ==
    IF ~W.isInitialized THEN W
    ELSE TryCall(W, "addSessionProperty", <<key, value, FALSE>>, bad)

addSessionProperty(W, key, value, permanent, bad) ==
    IF ~W.isInitialized THEN W
    ELSE TryCall(W, "addSessionProperty", <<key, value, permanent>>, bad)

recordNetworkRequest(W, params, bad) ==
    IF ~W.isInitialized THEN W
    ELSE TryCall(W, "recordNetworkRequest", params, bad)

\* A recordNetworkError that hands the error to the SDK twice.
recordNetworkErrorTwice(W, params, bad) ==
    IF ~W.isInitialized THEN W
    ELSE SdkCall(SdkCall(W, "logNetworkClientError", params, bad),
                 "logNetworkClientError", params, bad)

recordNetworkError(W, params, bad) ==
    IF ~W.isInitialized THEN W
    ELSE TryCall(W, "logNetworkClientError", params, bad)

removeSessionProperty(W, key, bad) ==
    IF ~W.isInitialized THEN W
    ELSE TryCall(W, "removeSessionProperty", <<key>>, bad)

\* The log methods; properties is NULL when the argument is left out.
logInfo(W, message, properties, bad) ==
    IF ~W.isInitialized THEN W
    ELSE IF properties # NULL
    THEN TryCall(W, "logMessage", <<message, "info", properties, FALSE>>, bad)
    ELSE TryCall(W, "logInfo", <<message>>, bad)

logWarning(W, message, properties, bad) ==
    IF ~W.isInitialized THEN W
    ELSE IF properties # NULL
    THEN TryCall(W, "logMessage", <<message, "warning", properties, TRUE>>, bad)
    ELSE TryCall(W, "logWarning", <<message>>, bad)

logError(W, message, properties, bad) ==
    IF ~W.isInitialized THEN W
    ELSE IF properties # NULL
    THEN TryCall(W, "logMessage", <<message, "error", properties, TRUE>>, bad)
    ELSE TryCall(W, "logError", <<message>>, bad)

logDebug(W, message, properties, bad) ==
    IF ~W.isInitialized THEN W
    ELSE logInfo(W, "[DEBUG] " \o message, properties, bad)

logHandledError(W, error, properties, bad) ==
    IF ~W.isInitialized THEN W
    ELSE TryCall(W, "logHandledError",
                 <<error, IF properties # NULL THEN properties ELSE <<>> >>, bad)

\* A recordCompletedSpan that goes through the registry and leaves it empty.
recordCompletedSpanViaRegistry(W, name, startTime, endTime, attributes, success, bad) ==
    IF ~W.isInitialized \/ ~W.tracer THEN W
    ELSE [TryCall(W, "recordCompletedSpan",
                  [name |-> name, startTime |-> startTime, endTime |-> endTime,
                   attributes |-> attributes,
                   status |-> IF success THEN "OK" ELSE "ERROR"], bad)
             EXCEPT !.activeSpans = [h \in {} |-> 0]]

recordCompletedSpan(W, name, startTime, endTime, attributes, success, bad) ==
    IF ~W.isInitialized \/ ~W.tracer THEN W
    ELSE TryCall(W, "recordCompletedSpan",
                 [name |-> name, startTime |-> startTime, endTime |-> endTime,
                  attributes |-> attributes,
                  status |-> IF success THEN "OK" ELSE "ERROR"], bad)

setUserIdentifier(W, userId, bad) ==
    IF ~W.isInitialized THEN W
    ELSE IF bad = "setUserIdentifier"
    THEN Catch(SdkCall(W, "setUserIdentifier", <<userId>>, bad), bad)
    ELSE addSessionProperty(SdkCall(W, "setUserIdentifier", <<userId>>, bad),
                            "user_id", userId, TRUE, bad)

setUserEmail(W, email, bad) ==
    IF ~W.isInitialized THEN W
    ELSE TryCall(W, "setUserEmail", <<email>>, bad)

setUsername(W, name, bad) ==
    IF ~W.isInitialized THEN W
    ELSE TryCall(W, "setUsername", <<name>>, bad)

\* The SDK calls of clearUserData's try block from the k-th on: the first
\* that throws ends the block.
ClearCalls == <<"clearUserIdentifier", "clearUserEmail", "clearUsername">>
RECURSIVE ClearFrom(_, _, _)
ClearFrom(W, k, bad) ==
    IF k > Len(ClearCalls)
    THEN removeSessionProperty(removeSessionProperty(W, "user_id", bad),
                               "auth_method", bad)
    ELSE IF bad = ClearCalls[k]
    THEN Catch(SdkCall(W, ClearCalls[k], <<>>, bad), bad)
    ELSE ClearFrom(SdkCall(W, ClearCalls[k], <<>>, bad), k + 1, bad)

clearUserData(W, bad) ==
    IF ~W.isInitialized THEN W
    ELSE ClearFrom(W, 1, bad)

\* Returns [W, ret]: ret is what the promise resolves with; id is what the
\* SDK resolves with.
getSessionId(W, id, bad) ==
    IF ~W.isInitialized THEN [W |-> W, ret |-> NULL]
    ELSE IF bad = "getCurrentSessionId"
    THEN [W |-> Catch(SdkCall(W, "getCurrentSessionId", <<>>, bad), bad),
          ret |-> NULL]
    ELSE [W |-> SdkCall(W, "getCurrentSessionId", <<>>, bad), ret |-> id]

getDeviceId(W, id, bad) ==
    IF ~W.isInitialized THEN [W |-> W, ret |-> NULL]
    ELSE IF bad = "getDeviceId"
    THEN [W |-> Catch(SdkCall(W, "getDeviceId", <<>>, bad), bad), ret |-> NULL]
    ELSE [W |-> SdkCall(W, "getDeviceId", <<>>, bad), ret |-> id]

endCurrentSession(W, bad) ==
    IF ~W.isInitialized THEN W
    ELSE TryCall(W, "endSession", <<>>, bad)

NewSpan(name, kind, attributes) ==
    [name |-> name, kind |-> kind,
     attrs |-> {attributes[i] : i \in 1..Len(attributes)},
     status |-> "UNSET", ended |-> FALSE]

MapSet(m, k, v) == [x \in DOMAIN m \cup {k} |-> IF x = k THEN v ELSE m[x]]
\* A delete that leaves the key in the map.
MapDeleteKeep(m, k) == m
MapDelete(m, k) == [x \in DOMAIN m \ {k} |-> m[x]]

\* this.activeSpans.set(spanId, span); return spanId
StoreSpan(W, spanId, span) ==
    [W |-> [W EXCEPT !.spans = Append(@, span),
                     !.activeSpans = MapSet(@, spanId, Len(W.spans) + 1)],
     ret |-> spanId]

\* A startSpan that returns the handle of a span it did not store.
startSpanUnstored(W, name, attributes, bad) ==
    IF ~W.isInitialized \/ ~W.tracer THEN [W |-> W, ret |-> NULL]
    ELSE IF bad = "startSpan" THEN [W |-> W, ret |-> NULL]
    ELSE [W |-> [W EXCEPT !.spans = Append(@, NewSpan(name, "span", attributes))],
          ret |-> name \o "_" \o ToString(now)]

\* Returns [W, ret]: ret is the handle, or NULL.
startSpan(W, name, attributes, bad) ==
    IF ~W.isInitialized \/ ~W.tracer THEN [W |-> W, ret |-> NULL]
    ELSE IF bad = "startSpan" THEN [W |-> Catch(W, bad), ret |-> NULL]
    ELSE StoreSpan(W, name \o "_" \o ToString(now),
                   NewSpan(name, "span", attributes))

startScreenViewSpan(W, screenName, bad) ==
    IF ~W.isInitialized \/ ~W.tracer THEN [W |-> W, ret |-> NULL]
    ELSE IF bad = "startView" THEN [W |-> Catch(W, bad), ret |-> NULL]
    ELSE StoreSpan(W, "screen_" \o screenName \o "_" \o ToString(now),
                   NewSpan(screenName, "view", <<>>))

\* The body of `if (span) {...}` in endSpan, for the span at index s.
EndRegistered(W, spanId, s, success, bad) ==
    IF ~success /\ bad = "setStatus" THEN Catch(W, bad)
    ELSE IF bad = "end"
         THEN Catch([W EXCEPT !.spans[s].status =
                                  IF success THEN @ ELSE "ERROR"], bad)
    ELSE [W EXCEPT !.spans[s].status = IF success THEN @ ELSE "ERROR",
                   !.spans[s].ended = TRUE,
                   !.activeSpans = MapDelete(@, spanId)]

\* An endSpan that, given a handle it does not know, ends the span it
\* registered last.
endSpanLatest(W, spanId, success, bad) ==
    IF ~W.isInitialized THEN W
    ELSE IF spanId \in DOMAIN W.activeSpans
    THEN EndRegistered(W, spanId, W.activeSpans[spanId], success, bad)
    ELSE IF DOMAIN W.activeSpans = {} THEN W
    ELSE EndRegistered(W,
             CHOOSE h \in DOMAIN W.activeSpans :
                 \A g \in DOMAIN W.activeSpans :
                     W.activeSpans[g] <= W.activeSpans[h],
             CHOOSE x \in {W.activeSpans[h] : h \in DOMAIN W.activeSpans} :
                 \A g \in DOMAIN W.activeSpans : W.activeSpans[g] <= x,
             success, bad)

endSpan(W, spanId, success, bad) ==
    IF ~W.isInitialized THEN W
    ELSE IF spanId \notin DOMAIN W.activeSpans THEN W
    ELSE EndRegistered(W, spanId, W.activeSpans[spanId], success, bad)

addSpanAttribute(W, spanId, key, value, bad) ==
    IF ~W.isInitialized THEN W
    ELSE IF spanId \notin DOMAIN W.activeSpans THEN W
    ELSE IF bad = "setAttribute" THEN Catch(W, bad)
    ELSE [W EXCEPT !.spans[W.activeSpans[spanId]].attrs =
              {a \in @ : a[1] # key} \cup {<<key, value>>}]

\* Math.floor(Math.random() * n) when Math.random() returns r / RandomGrain.
FloorRandom(r, n) == (r * n) \div RandomGrain

\* setTimeout(fn, delay): the timer remembers when it was set and how many
\* calls the SDK had received by then.
SetTimeout(W, fn, delay) ==
    [W EXCEPT !.timers = Append(@, [fn |-> fn, delay |-> delay, at |-> now,
                                    after |-> Len(W.sdkLog), fired |-> FALSE])]

\* A variant that arms the timer before it records the decision.
ArmTimerFirst(W, r, bad) ==
    addSessionProperty(
        SetTimeout([W EXCEPT !.randoms = Append(@, r)], "triggerCICrash",
                   CrashDelayBase + FloorRandom(r, CrashDelaySpread)),
        "ci_crash_scheduled", "true", FALSE, bad)

\* The willCrash branch of startCICrashSimulation; r is the second draw.
Arm(W, r, bad) ==
    SetTimeout([addSessionProperty(W, "ci_crash_scheduled", "true", FALSE, bad)
                   EXCEPT !.randoms = Append(@, r)],
               "triggerCICrash",
               CrashDelayBase + FloorRandom(r, CrashDelaySpread))

\* A threshold that is met by the roll that equals it.
willCrashAtLeast(probability) ==
    probability >= crashProbabilityThreshold

willCrash(probability) ==
    probability > crashProbabilityThreshold

\* A variant that marks the session as a CI session only when it arms.
ArmingEvaluationModeWhenArmed(W, r1, r2, bad) ==
    IF willCrash(FloorRandom(r1, 100))
    THEN Arm(addSessionProperty([W EXCEPT !.randoms = Append(@, r1)],
                                "ci_mode", "enabled", FALSE, bad), r2, bad)
    ELSE addSessionProperty([W EXCEPT !.randoms = Append(@, r1)],
                            "ci_crash_scheduled", "false", FALSE, bad)

\* startCICrashSimulation once the flag let it pass; r1 and r2 are what the
\* two calls of Math.random() return.
ArmingEvaluation(W, r1, r2, bad) ==
    LET W1 == addSessionProperty(W, "ci_mode", "enabled", FALSE, bad)
        W2 == [W1 EXCEPT !.randoms = Append(@, r1)]
    IN  IF willCrash(FloorRandom(r1, 100))
        THEN Arm(W2, r2, bad)
        ELSE addSessionProperty(W2, "ci_crash_scheduled", "false", FALSE, bad)

\* A variant without the check of the flag.
startCICrashSimulationUnguarded(W, r1, r2, bad) ==
    ArmingEvaluation(W, r1, r2, bad)

startCICrashSimulation(W, r1, r2, bad) ==
    IF ~ciMode THEN W
    ELSE ArmingEvaluation(W, r1, r2, bad)

\* The callback of the crash timer.
triggerCICrash(W, bad) ==
    SetTimeout(
        logError(addBreadcrumb(W, "CI_CRASH_TRIGGERED", bad),
                 "CI automated crash test",
                 << <<"test_type", "ci_automated_crash">>,
                    <<"crash_reason", "scheduled_crash_simulation">> >>, bad),
        "throw", CrashGrace)

\* The callback of the grace timer: the error it throws has no handler.
CIAutomatedCrash == "CI automated crash - 20% probability crash simulation"
throwCICrash(W) ==
    [W EXCEPT !.escaped = Append(@, [error |-> CIAutomatedCrash,
                                     to |-> "eventLoop"])]

\* throw new Error(...), with no handler between it and the caller.
Throw(W, error) ==
    [W EXCEPT !.escaped = Append(@, [error |-> error, to |-> "caller"])]

EmbraceCrashTest == "Embrace crash test - this is intentional"

\* A forceEmbraceCrash whose throw is caught inside the service.
forceEmbraceCrashContained(W, bad) ==
    Catch(logError(addBreadcrumb(W, "CRASH_TEST_TRIGGERED", bad),
                   "Crash test triggered", LogProperties, bad),
          EmbraceCrashTest)

forceEmbraceCrash(W, bad) ==
    Throw(logError(addBreadcrumb(W, "CRASH_TEST_TRIGGERED", bad),
                   "Crash test triggered", LogProperties, bad),
          EmbraceCrashTest)

\* __DEV__ and Platform.OS of the build.
DEV == TRUE
PlatformOS == "ios"

SeedSessionProperties(W, bad) ==
    LET W1 == addSessionProperty(W, "app_version", "1.0.0", TRUE, bad)
        W2 == addSessionProperty(W1, "platform", "react-native", TRUE, bad)
        W3 == addSessionProperty(W2, "app_type", "dogfooding_ecommerce", TRUE, bad)
        W4 == addSessionProperty(W3, "sdk_test_mode", "enabled", FALSE, bad)
        W5 == addSessionProperty(W4, "environment",
                  IF DEV THEN "development" ELSE "production", FALSE, bad)
    IN  addSessionProperty(W5, "session_run_source",
            IF PlatformOS = "ios" THEN "Simulator" ELSE "Emulator", FALSE, bad)

\* An initialize that runs the arming evaluation before it seeds the session.
initializeArmingFirst(W, started, r1, r2, bad) ==
    IF bad = "initialize" THEN [W |-> Catch(W, bad), ret |-> FALSE]
    ELSE IF ~started THEN [W |-> [W EXCEPT !.isInitialized = started],
                           ret |-> FALSE]
    ELSE IF bad \in {"tracerProvider", "getTracer"}
    THEN [W |-> Catch([W EXCEPT !.isInitialized = started], bad), ret |-> FALSE]
    ELSE [W |-> SeedSessionProperties(
                    addBreadcrumb(
                        startCICrashSimulation(
                            [W EXCEPT !.isInitialized = started,
                                      !.tracerProvider = TRUE, !.tracer = TRUE],
                            r1, r2, bad),
                        "APP_INITIALIZED", bad), bad),
          ret |-> TRUE]

\* Returns [W, ret]: ret is the boolean initialize() resolves with.
initialize(W, started, r1, r2, bad) ==
    IF bad = "initialize" THEN [W |-> Catch(W, bad), ret |-> FALSE]
    ELSE LET W1 == [W EXCEPT !.isInitialized = started]
             W2 == [W1 EXCEPT !.tracerProvider = TRUE]
             W3 == [W2 EXCEPT !.tracer = TRUE]
             W4 == addBreadcrumb(W3, "APP_INITIALIZED", bad)
             W5 == SeedSessionProperties(W4, bad)
         IN  IF ~started THEN [W |-> W1, ret |-> FALSE]
             ELSE IF bad = "tracerProvider"
                  THEN [W |-> Catch(W1, bad), ret |-> FALSE]
             ELSE IF bad = "getTracer"
                  THEN [W |-> Catch(W2, bad), ret |-> FALSE]
             ELSE [W |-> startCICrashSimulation(W5, r1, r2, bad),
                   ret |-> TRUE]

-----------------------------------------------------------------------------
(* APIService *)

\* A request identifier made of the time alone, without the counter.
generateRequestIdOfTime(counter) ==
    "req_" \o ToString(now)

\* `req_${++this.requestIdCounter}_${Date.now()}`
generateRequestId(counter) ==
    "req_" \o ToString(counter + 1) \o "_" \o ToString(now)

\* An executeRequest that does not await: it records the request before the
\* operation has settled.
executeRequestBeginEager(W, opts, requestId, bad) ==
    [W |-> recordNetworkRequest(
               startSpan(W, "api_" \o opts.endpoint, <<>>, bad).W,
               [url |-> API_BASE_URL \o opts.endpoint, method |-> opts.method,
                startTime |-> now, endTime |-> now, statusCode |-> 200,
                bytesSent |-> 0, bytesReceived |-> 0], bad),
     ret |-> startSpan(W, "api_" \o opts.endpoint, <<>>, bad).ret]

\* executeRequest up to its try block: the span of the request.
\* Returns [W, ret] as startSpan does.
executeRequestBegin(W, opts, requestId, bad) ==
    startSpan(W, "api_" \o opts.endpoint,
              << <<"http.url", API_BASE_URL \o opts.endpoint>>,
                 <<"http.method", opts.method>>,
                 <<"request.id", requestId>> >>, bad)

\* The try block of executeRequest after the await resolved with `result`:
\* [W, threw, error]; when threw, error is what the block throws.
executeRequestSuccess(W, I, result, bad) ==
    LET url == API_BASE_URL \o I.opts.endpoint
        endTime == now
        sent == IF Truthy(I.opts.body) THEN JSONStringify(I.opts.body)
                ELSE ""
        received == JSONStringify(result)
        params == [url |-> url, method |-> I.opts.method,
                   startTime |-> I.startTime, endTime |-> endTime,
                   statusCode |-> 200, bytesSent |-> Len(sent),
                   bytesReceived |-> Len(received)]
        W1 == recordNetworkRequest(W, params, bad)
        W2 == addSpanAttribute(W1, I.spanId, "http.status_code", "200", bad)
        W3 == addSpanAttribute(W2, I.spanId, "duration_ms",
                               ToString(endTime - I.startTime), bad)
        W4 == endSpan(W3, I.spanId, TRUE, bad)
    IN  IF sent = NULL \/ received = NULL
        THEN [W |-> W, threw |-> TRUE, error |-> TypeErrorLength]
        ELSE IF Raised(W, W1) THEN [W |-> W1, threw |-> TRUE, error |-> Thrown(W1)]
        ELSE IF I.spanId = NULL
        THEN [W |-> W1, threw |-> FALSE, error |-> JUndefined]
        ELSE IF Raised(W1, W2) THEN [W |-> W2, threw |-> TRUE, error |-> Thrown(W2)]
        ELSE IF Raised(W2, W3) THEN [W |-> W3, threw |-> TRUE, error |-> Thrown(W3)]
        ELSE IF Raised(W3, W4) THEN [W |-> W4, threw |-> TRUE, error |-> Thrown(W4)]
        ELSE [W |-> W4, threw |-> FALSE, error |-> JUndefined]

\* The catch block of executeRequest for the caught `error`: [W, error],
\* error being what the block throws.
executeRequestFailure(W, I, error, bad) ==
    LET url == API_BASE_URL \o I.opts.endpoint
        endTime == now
        errorMessage == IF error.t = "Error" THEN error.s ELSE "Unknown error"
        params == [url |-> url, method |-> I.opts.method,
                   startTime |-> I.startTime, endTime |-> endTime,
                   errorType |-> "api_error", errorMessage |-> errorMessage]
        W1 == recordNetworkError(W, params, bad)
        W2 == addSpanAttribute(W1, I.spanId, "error.message", errorMessage, bad)
        W3 == endSpan(W2, I.spanId, FALSE, bad)
    IN  IF Raised(W, W1) THEN [W |-> W1, error |-> Thrown(W1)]
        ELSE IF I.spanId = NULL THEN [W |-> W1, error |-> error]
        ELSE IF Raised(W1, W2) THEN [W |-> W2, error |-> Thrown(W2)]
        ELSE IF Raised(W2, W3) THEN [W |-> W3, error |-> Thrown(W3)]
        ELSE [W |-> W3, error |-> error]

\* What executeRequest delivers when its catch block ended as f.
Rejected(f) == [W |-> f.W, delivered |-> Reject(f.error)]

\* try { ... return result } catch (error) { ... throw error }
TryCatch(I, try, bad) ==
    IF ~try.threw
    THEN [W |-> try.W, delivered |-> Resolve(I.outcome.value)]
    ELSE Rejected(executeRequestFailure(try.W, I, try.error, bad))

\* executeRequest from the point where the awaited operation has settled with
\* I.outcome: [W, delivered], delivered being what the wrapper's promise
\* settles with.
executeRequestResume(W, I, bad) ==
    IF I.outcome.kind = "resolve"
    THEN TryCatch(I, executeRequestSuccess(W, I, I.outcome.value, bad), bad)
    ELSE Rejected(executeRequestFailure(W, I, I.outcome.value, bad))

-----------------------------------------------------------------------------
(* EmbraceService: the tracking methods of the shop *)

\* String.toUpperCase() and String.toLowerCase() on the names of the
\* authentication methods.
toUpperCase(str) ==
    CASE str = "email" -> "EMAIL"
      [] str = "guest" -> "GUEST"
      [] OTHER -> str

toLowerCase(str) ==
    CASE str = "EMAIL" -> "email"
      [] str = "GUEST" -> "guest"
      [] OTHER -> str

trackLoginFailure(W, method, errorMessage, bad) ==
    LET attributes == << <<"auth.method", method>>,
                         <<"error.message", errorMessage>> >>
        W1 == addBreadcrumb(W, "USER_LOGIN_FAILED_" \o toUpperCase(method), bad)
        W2 == recordCompletedSpan(W1, "login_failure", now, now, attributes,
                                  FALSE, bad)
    IN  logError(W2, "Login failed", attributes, bad)

trackLoginAttempt(W, method, bad) ==
    LET attributes == << <<"auth.method", method>> >>
        W1 == addBreadcrumb(W, "USER_LOGIN_STARTED_" \o toUpperCase(method), bad)
        W2 == recordCompletedSpan(W1, "login_attempt", now, now, attributes,
                                  TRUE, bad)
    IN  logInfo(W2, "Login attempt started", attributes, bad)

\* email is NULL where the caller passes none.
trackLoginSuccess(W, userId, method, email, bad) ==
    LET attributes == << <<"auth.method", method>>, <<"user.id", userId>> >>
                        \o IF email # NULL THEN << <<"auth.email", email>> >>
                           ELSE <<>>
        W1 == addBreadcrumb(W, "USER_LOGIN_SUCCESS_" \o toUpperCase(method), bad)
        W2 == recordCompletedSpan(W1, toLowerCase(method) \o "_sign_in", now, now,
                                  attributes, TRUE, bad)
        W3 == logInfo(W2, "Login successful", attributes, bad)
        W4 == setUserIdentifier(W3, userId, bad)
        W5 == IF email # NULL THEN setUserEmail(W4, email, bad) ELSE W4
        W6 == addSessionProperty(W5, "auth_method", method, FALSE, bad)
    IN  addSessionProperty(W6, "user_type",
                           IF method = "guest" THEN "guest" ELSE "registered",
                           FALSE, bad)

\* trackLogout() as its callers call it, without a session duration.
trackLogout(W, bad) ==
    LET W1 == addBreadcrumb(W, "USER_LOGOUT", bad)
        W2 == recordCompletedSpan(W1, "user_sign_out", now, now, <<>>, TRUE, bad)
        W3 == logInfo(W2, "User logged out", <<>>, bad)
    IN  clearUserData(W3, bad)

\* info: [orderId, totalAmount, itemCount, paymentMethod].
PurchaseAttributes(info) ==
    << <<"order.id", info.orderId>>,
       <<"order.total", ToString(info.totalAmount)>>,
       <<"order.item_count", ToString(info.itemCount)>> >>

trackPurchaseAttempt(W, info, bad) ==
    LET W1 == addBreadcrumb(W, "CHECKOUT_STARTED", bad)
        W2 == recordCompletedSpan(W1, "purchase_attempt", now, now,
                                  PurchaseAttributes(info), TRUE, bad)
        W3 == logInfo(W2, "Purchase attempt started", PurchaseAttributes(info),
                      bad)
    IN  addSessionProperty(W3, "current_order_id", info.orderId, FALSE, bad)

trackPurchaseSuccess(W, info, bad) ==
    LET attributes == PurchaseAttributes(info)
                        \o IF info.paymentMethod # NULL
                           THEN << <<"payment.method", info.paymentMethod>> >>
                           ELSE <<>>
        W1 == addBreadcrumb(W, "CHECKOUT_COMPLETED", bad)
        W2 == recordCompletedSpan(W1, "purchase_success", now, now, attributes,
                                  TRUE, bad)
        W3 == logInfo(W2, "Purchase successful", attributes, bad)
        W4 == removeSessionProperty(W3, "current_order_id", bad)
        W5 == addSessionProperty(W4, "last_successful_order", info.orderId,
                                 TRUE, bad)
    IN  addSessionProperty(W5, "cart_item_count", "0", FALSE, bad)

trackPurchaseFailure(W, orderId, errorMessage, failureReason, bad) ==
    LET attributes == << <<"order.id", orderId>>,
                         <<"error.message", errorMessage>>,
                         <<"failure.reason", failureReason>> >>
        W1 == addBreadcrumb(W, "CHECKOUT_FAILED", bad)
        W2 == recordCompletedSpan(W1, "purchase_failure", now, now, attributes,
                                  FALSE, bad)
    IN  logError(W2, "Purchase failed", attributes, bad)

trackCheckoutCompleted(W, orderId, total, bad) ==
    logInfo(addBreadcrumb(W, "CHECKOUT_COMPLETED", bad), "Checkout completed",
            << <<"order.id", orderId>>, <<"order.total", ToString(total)>> >>,
            bad)

\* info: [productId, quantity, price, cartTotalItems, cartSubtotal].
trackAddToCart(W, info, bad) ==
    LET attributes == << <<"product.id", info.productId>>,
                         <<"cart.quantity", ToString(info.quantity)>>,
                         <<"cart.item_value", ToString(info.price)>>,
                         <<"cart_total_items", ToString(info.cartTotalItems)>>,
                         <<"cart_subtotal", ToString(info.cartSubtotal)>> >>
        W1 == addBreadcrumb(W, "ADD_TO_CART_" \o info.productId, bad)
        W2 == recordCompletedSpan(W1, "add_to_cart", now, now, attributes,
                                  TRUE, bad)
        W3 == logInfo(W2, "Product added to cart", attributes, bad)
    IN  addSessionProperty(W3, "cart_item_count",
                           ToString(info.cartTotalItems), FALSE, bad)

trackRemoveFromCart(W, productId, cartTotalItems, bad) ==
    LET W1 == addBreadcrumb(W, "REMOVE_FROM_CART_" \o productId, bad)
        W2 == logInfo(W1, "Product removed from cart",
                      << <<"product.id", productId>> >>, bad)
    IN  addSessionProperty(W2, "cart_item_count", ToString(cartTotalItems),
                           FALSE, bad)

trackCartCleared(W, bad) ==
    addSessionProperty(
        logInfo(addBreadcrumb(W, "CART_CLEARED", bad), "Cart cleared", NULL, bad),
        "cart_item_count", "0", FALSE, bad)

-----------------------------------------------------------------------------
(* useCartStore *)

\* The products of the catalogue that the model puts into the cart.
Products == {[id |-> "prod-1", price |-> 5], [id |-> "prod-2", price |-> 3]}

\* calculateCartTotals(items): {totalItems, subtotal}.
RECURSIVE calculateCartTotals(_)
calculateCartTotals(its) ==
    IF its = <<>> THEN [totalItems |-> 0, subtotal |-> 0]
    ELSE LET rest == calculateCartTotals(Tail(its))
         IN  [totalItems |-> rest.totalItems + Head(its).quantity,
              subtotal |-> rest.subtotal
                             + Head(its).unitPrice * Head(its).quantity]

\* state.items.filter(i => i.id !== itemId)
WithoutItem(its, itemId) == SelectSeq(its, LAMBDA i : i.id # itemId)

\* The positions of its whose item satisfies the test of find / findIndex.
ItemsOfProduct(its, productId) ==
    {k \in DOMAIN its : its[k].productId = productId}
ItemsWithId(its, itemId) == {k \in DOMAIN its : its[k].id = itemId}

\* The cart operations return [W, items]: the service and the items of the
\* store after the operation.  The selected variants are always {}; the
\* random suffix of an item id is written as the product id, one item per
\* product being what findIndex leaves in the cart.
addItem(W, its, product, quantity, bad) ==
    LET isNewItem == ItemsOfProduct(its, product.id) = {}
        k == CHOOSE x \in ItemsOfProduct(its, product.id) :
                 \A y \in ItemsOfProduct(its, product.id) : x <= y
        newItems ==
            IF isNewItem
            THEN Append(its, [id |-> "cart-" \o ToString(now) \o "-" \o product.id,
                              productId |-> product.id, quantity |-> quantity,
                              unitPrice |-> product.price])
            ELSE [its EXCEPT ![k].quantity = @ + quantity]
        totals == calculateCartTotals(newItems)
        W1 == trackAddToCart(W, [productId |-> product.id, quantity |-> quantity,
                                 price |-> product.price,
                                 cartTotalItems |-> totals.totalItems,
                                 cartSubtotal |-> totals.subtotal], bad)
    IN  [W |-> logInfo(W1, IF isNewItem THEN "New item added to cart"
                           ELSE "Cart item quantity updated",
                       << <<"product.id", product.id>>,
                          <<"action", IF isNewItem THEN "new_item"
                                      ELSE "quantity_update">> >>, bad),
         items |-> newItems]

removeItem(W, its, itemId, bad) ==
    LET newItems == WithoutItem(its, itemId)
        totalItems == calculateCartTotals(newItems).totalItems
        item == its[CHOOSE x \in ItemsWithId(its, itemId) :
                        \A y \in ItemsWithId(its, itemId) : x <= y]
    IN  [W |-> IF ItemsWithId(its, itemId) = {} THEN W
               ELSE logInfo(trackRemoveFromCart(W, item.productId, totalItems, bad),
                            "Item removed from cart",
                            << <<"product.id", item.productId>>,
                               <<"cart_total_items", ToString(totalItems)>> >>,
                            bad),
         items |-> newItems]

updateQuantity(W, its, itemId, quantity, bad) ==
    LET found == ItemsWithId(its, itemId) # {}
        item == its[CHOOSE x \in ItemsWithId(its, itemId) :
                        \A y \in ItemsWithId(its, itemId) : x <= y]
        removed == WithoutItem(its, itemId)
        changed == [k \in DOMAIN its |->
                       IF its[k].id = itemId
                       THEN [its[k] EXCEPT !.quantity = quantity] ELSE its[k]]
        totalItems == calculateCartTotals(changed).totalItems
    IN  IF quantity <= 0
        THEN [W |-> IF found
                    THEN trackRemoveFromCart(
                             W, item.productId,
                             calculateCartTotals(removed).totalItems, bad)
                    ELSE W,
              items |-> removed]
        ELSE [W |-> IF found
                    THEN addSessionProperty(
                             logInfo(W, "Cart item quantity changed",
                                     << <<"product.id", item.productId>>,
                                        <<"new_quantity", ToString(quantity)>>,
                                        <<"cart_total_items",
                                          ToString(totalItems)>> >>, bad),
                             "cart_item_count", ToString(totalItems), FALSE, bad)
                    ELSE W,
              items |-> changed]

clearCart(W, its, bad) ==
    [W |-> trackCartCleared(W, bad), items |-> <<>>]

-----------------------------------------------------------------------------
(* CheckoutScreen.processOrder with APIService.processPayment / createOrder *)

\* The request descriptors; the bodies and the results stand for the
\* serialisable objects the application passes.
PaymentRequest ==
    [endpoint |-> "/payments/process", method |-> "POST",
     body |-> JArr(<<JNum(7)>>)]
OrderRequest ==
    [endpoint |-> "/orders", method |-> "POST", body |-> JArr(<<JNum(7)>>)]

\* An invocation of executeRequest as the flows of the application hold it.
NoRequest ==
    [opts |-> CHOOSE d \in Descriptors : d.method = "GET", startTime |-> 0,
     spanId |-> NULL, outcome |-> Pending]

\* The invocation of executeRequest that began as r for the descriptor opts.
Request(opts, r) ==
    [opts |-> opts, startTime |-> now, spanId |-> r.ret, outcome |-> Pending]

\* error instanceof Error ? error.message : 'Unknown error'
MessageOf(error) == IF error.t = "Error" THEN error.s ELSE "Unknown error"

\* Math.random() < 0.05 and Math.random() < 0.1 for the draw r.
PaymentDeclined(r) == r * 20 < RandomGrain
LoginRefused(r) == r * 10 < RandomGrain

\* The catch block of processOrder; the screen stays at the review step.
processOrderFailed(W, c, error) ==
    [W |-> logError(W, "Order processing failed",
                    << <<"error", MessageOf(error)>> >>, "none"),
     checkout |-> [c EXCEPT !.pc = "review", !.I = NoRequest]]

\* processOrder up to the await inside processPayment: [W, checkout].
\* total stands for subtotal + tax + shipping with no tax and free shipping.
processOrder(W, its, counter) ==
    LET W0 == addBreadcrumb(W, "PLACE_ORDER_INITIATED", "none")
        r == executeRequestBegin(W0, PaymentRequest, generateRequestId(counter),
                                 "none")
    IN  [W |-> addBreadcrumb(r.W, "PAYMENT_PROCESSING_STARTED", "none"),
         checkout |-> [pc |-> "paying", I |-> Request(PaymentRequest, r),
                       tempOrderId |-> "temp-order-" \o ToString(now),
                       total |-> calculateCartTotals(its).subtotal,
                       itemCount |-> Len(its)]]

\* processOrder from the point where the delay of processPayment is over,
\* r being the draw of Math.random(): the rest of processPayment, and on
\* success createOrder up to its await.  [W, checkout].
processOrderPaid(W, c, r, counter) ==
    LET Wr == [W EXCEPT !.randoms = Append(@, r)]
        failed == executeRequestResume(
                      trackPurchaseFailure(
                          addBreadcrumb(Wr, "PAYMENT_PROCESSING_FAILED", "none"),
                          c.tempOrderId, "Payment declined", "card_declined",
                          "none"),
                      [c.I EXCEPT !.outcome = Reject(JErr("Payment declined"))],
                      "none")
        paid == executeRequestResume(
                    trackPurchaseSuccess(
                        addBreadcrumb(Wr, "PAYMENT_PROCESSING_SUCCESS", "none"),
                        [orderId |-> c.tempOrderId, totalAmount |-> c.total,
                         itemCount |-> 0, paymentMethod |-> "credit_card"],
                        "none"),
                    [c.I EXCEPT !.outcome =
                         Resolve(JArr(<<JStr("txn-" \o ToString(now))>>))],
                    "none")
        b == executeRequestBegin(paid.W, OrderRequest,
                                 generateRequestId(counter), "none")
    IN  IF PaymentDeclined(r)
        THEN processOrderFailed(failed.W, c, failed.delivered.value)
        ELSE IF paid.delivered.kind = "reject"
        THEN processOrderFailed(paid.W, c, paid.delivered.value)
        ELSE [W |-> trackPurchaseAttempt(
                        b.W, [orderId |-> "order-" \o ToString(now),
                              totalAmount |-> c.total,
                              itemCount |-> c.itemCount,
                              paymentMethod |-> NULL], "none"),
              checkout |-> [c EXCEPT !.pc = "ordering",
                                     !.I = Request(OrderRequest, b)]]

\* processOrder from the point where the delay of createOrder is over:
\* [W, checkout, items].
processOrderCreated(W, c, its) ==
    LET created == executeRequestResume(
                       addBreadcrumb(W, "ORDER_DETAILS_API_COMPLETED", "none"),
                       [c.I EXCEPT !.outcome =
                            Resolve(JArr(<<JStr("order-" \o ToString(c.I.startTime))>>))],
                       "none")
        W1 == trackCheckoutCompleted(created.W,
                                     "order-" \o ToString(c.I.startTime),
                                     c.total, "none")
    IN  IF created.delivered.kind = "reject"
        THEN [W |-> processOrderFailed(created.W, c, created.delivered.value).W,
              checkout |->
                  processOrderFailed(created.W, c, created.delivered.value).checkout,
              items |-> its]
        ELSE [W |-> clearCart(W1, its, "none").W,
              checkout |-> [c EXCEPT !.pc = "confirmation", !.I = NoRequest],
              items |-> clearCart(W1, its, "none").items]

-----------------------------------------------------------------------------
(* useAuthStore with APIService.login / guestCheckout, and ProfileScreen *)

\* The user of the mock data, which is not part of the sources at hand.
MockUser == [id |-> "user-1", email |-> "user@example.com", name |-> "Test User"]

LoginRequest(method) ==
    [endpoint |-> IF method = "guest" THEN "/auth/guest" ELSE "/auth/login",
     method |-> "POST",
     body |-> IF method = "guest" THEN JUndefined ELSE JArr(<<JNum(7)>>)]

\* login / guestCheckout of the store up to the await inside the API call:
\* [W, auth].
login(W, a, method, counter) ==
    LET W0 == addBreadcrumb(W, IF method = "guest" THEN "GUEST_CHECKOUT_ATTEMPT"
                               ELSE "LOGIN_ATTEMPT", "none")
        r == executeRequestBegin(W0, LoginRequest(method),
                                 generateRequestId(counter), "none")
    IN  [W |-> trackLoginAttempt(r.W, method, "none"),
         auth |-> [a EXCEPT !.authState = "authenticating", !.method = method,
                            !.I = Request(LoginRequest(method), r)]]

\* The catch block of the store's login / guestCheckout: [W, auth].
loginFailed(W, a, error) ==
    [W |-> trackLoginFailure(W, a.method, MessageOf(error), "none"),
     auth |-> [a EXCEPT !.authState = "error", !.I = NoRequest,
                        !.failed = @ + 1]]

\* The same from the point where the delay of the API call is over, r being
\* the draw of Math.random() that login makes: [W, auth].
loginSettled(W, a, r) ==
    LET Wr == [W EXCEPT !.randoms = Append(@, r)]
        refused == executeRequestResume(
                       trackLoginFailure(Wr, "email", "Invalid credentials",
                                         "none"),
                       [a.I EXCEPT !.outcome = Reject(JErr("Invalid credentials"))],
                       "none")
        signedIn ==
            IF a.method = "guest"
            THEN trackLoginSuccess(W, "guest-" \o ToString(now), "guest", NULL,
                                   "none")
            ELSE setUsername(
                     trackLoginSuccess(Wr, MockUser.id, "email", MockUser.email,
                                       "none"),
                     MockUser.name, "none")
        done == executeRequestResume(
                    signedIn,
                    [a.I EXCEPT !.outcome = Resolve(JArr(<<JStr("token")>>))],
                    "none")
    IN  IF a.method # "guest" /\ LoginRefused(r)
        THEN loginFailed(refused.W, a, refused.delivered.value)
        ELSE IF done.delivered.kind = "reject"
        THEN loginFailed(done.W, a, done.delivered.value)
        ELSE [W |-> addSessionProperty(
                        done.W, "user_type",
                        IF a.method = "guest" THEN "guest" ELSE "registered",
                        FALSE, "none"),
              auth |-> [a EXCEPT !.authState = "authenticated",
                                 !.I = NoRequest]]

\* logout() of the store: [W, auth].
logout(W, a) ==
    [W |-> trackLogout(W, "none"),
     auth |-> [a EXCEPT !.authState = "unauthenticated", !.method = NULL]]

\* The onPress handler of the Sign Out alert: [W, auth].
handleLogout(W, a) ==
    [W |-> trackLogout(logout(W, a).W, "none"),
     auth |-> [logout(W, a).auth EXCEPT !.logouts = @ + 1]]

-----------------------------------------------------------------------------
(* State *)

Invocations == 1..MaxInv

IdleInvocation ==
    [pc |-> "idle", opts |-> CHOOSE d \in Descriptors : d.method = "GET",
     requestId |-> NULL, startTime |-> 0, spanId |-> NULL,
     outcome |-> Pending, delivered |-> Pending,
     \* history of the invocation
     span |-> 0, ended |-> {}, wrote |-> {}, marked |-> {}, records |-> 0,
     errors |-> 0, initAtStart |-> FALSE, initAtEnd |-> FALSE]

\* processOrder has not been called: the checkout is at its review step.
IdleCheckout ==
    [pc |-> "review", I |-> NoRequest, tempOrderId |-> NULL, total |-> 0,
     itemCount |-> 0]

\* Nobody is signed in and no login is in flight; failed and logouts are
\* history: the logins that failed and the logouts that were confirmed.
IdleAuth ==
    [authState |-> "unauthenticated", method |-> NULL, I |-> NoRequest,
     failed |-> 0, logouts |-> 0]

\* History: no direct call of the span registry was the last step.
NoCall ==
    [op |-> "none", arg |-> NULL, ret |-> NULL, bad |-> "none", known |-> FALSE]

\* History: the direct call op(arg) that returned ret, with the primitive
\* `bad` throwing; known: arg was a registered handle when it was called.
Called(op, arg, ret, bad) ==
    [op |-> op, arg |-> arg, ret |-> ret, bad |-> bad,
     known |-> arg \in DOMAIN activeSpans]

\* History: the direct call op(args) of a telemetry primitive.
CalledPrimitive(op, args, ret, bad) ==
    [op |-> op, arg |-> args, ret |-> ret, bad |-> bad, known |-> FALSE]

\* History: the call of initialize() that returned ret; arg is what the SDK's
\* initialize resolved with (<<>> when it threw), bad the fault that happened.
CalledInitialize(started, ret, bad) ==
    [op |-> "initialize",
     arg |-> IF bad = "initialize" THEN <<>> ELSE <<started>>,
     ret |-> ret,
     bad |-> IF bad = "initialize" \/ started THEN bad ELSE "none",
     known |-> FALSE]

Init ==
    /\ isInitialized = FALSE
    /\ tracerProvider = FALSE
    /\ tracer = FALSE
    /\ activeSpans = [h \in {} |-> 0]
    /\ spans = <<>>
    /\ sdkLog = <<>>
    /\ timers = <<>>
    /\ randoms = <<>>
    /\ escaped = <<>>
    /\ ciMode \in BOOLEAN
    /\ now = 0
    /\ initCalls = 0
    /\ initOk = FALSE
    /\ calls = 0
    /\ requestIdCounter = 0
    /\ inv = [i \in Invocations |-> IdleInvocation]
    /\ issued = <<>>
    /\ last = NoCall
    /\ items = <<>>
    /\ checkout = IdleCheckout
    /\ auth = IdleAuth

\* The service state after a handler ran.
Becomes(W) ==
    /\ isInitialized' = W.isInitialized
    /\ tracerProvider' = W.tracerProvider
    /\ tracer' = W.tracer
    /\ activeSpans' = W.activeSpans
    /\ spans' = W.spans
    /\ sdkLog' = W.sdkLog
    /\ timers' = W.timers
    /\ randoms' = W.randoms
    /\ escaped' = W.escaped

\* History: a start call by `owner` (0: a direct caller, i: invocation i)
\* returned r.ret.
IssuedAfterStart(r, owner) ==
    IF r.ret = NULL THEN issued
    ELSE Append(issued, [handle |-> r.ret, span |-> Len(r.W.spans),
                         owner |-> owner, ended |-> FALSE,
                         closedWith |-> "open"])

\* History: endSpan(spanId, success) was called in state World and left W.
IssuedAfterEnd(W, spanId, success) ==
    [k \in DOMAIN issued |->
        [issued[k] EXCEPT
            !.ended = @ \/ (isInitialized /\ issued[k].handle = spanId),
            !.closedWith = IF /\ ~spans[issued[k].span].ended
                              /\ W.spans[issued[k].span].ended
                           THEN (IF success THEN "true" ELSE "false")
                           ELSE @]]

-----------------------------------------------------------------------------
(* Steps: calls of the service by the application *)

Tick ==
    /\ now < MaxTime
    /\ now' = now + 1
    /\ last' = NoCall
    /\ UNCHANGED <<shop, isInitialized, tracerProvider, tracer, activeSpans, spans,
                   sdkLog, timers, randoms, escaped, ciMode, initCalls, initOk,
                   calls,
                   requestIdCounter, inv, issued>>

Initialize(started, r1, r2, bad) ==
    /\ initCalls < MaxInit
    /\ Becomes(initialize(World, started, r1, r2, bad).W)
    /\ initCalls' = initCalls + 1
    /\ initOk' = (initOk \/ initialize(World, started, r1, r2, bad).ret)
    /\ last' = CalledInitialize(started, initialize(World, started, r1, r2, bad).ret,
                                bad)
    /\ UNCHANGED <<shop, ciMode, now, calls, requestIdCounter, inv, issued>>

StartSpan(name, attributes, bad) ==
    /\ Len(spans) < MaxSpans
    /\ LET r == startSpan(World, name, attributes, bad)
       IN  /\ Becomes(r.W)
           /\ issued' = IssuedAfterStart(r, 0)
           /\ last' = Called("startSpan", name, r.ret, bad)
    /\ UNCHANGED <<shop, ciMode, now, initCalls, initOk, calls, requestIdCounter, inv>>

StartScreenViewSpan(screenName, bad) ==
    /\ Len(spans) < MaxSpans
    /\ LET r == startScreenViewSpan(World, screenName, bad)
       IN  /\ Becomes(r.W)
           /\ issued' = IssuedAfterStart(r, 0)
           /\ last' = Called("startScreenViewSpan", screenName, r.ret, bad)
    /\ UNCHANGED <<shop, ciMode, now, initCalls, initOk, calls, requestIdCounter, inv>>

EndSpan(spanId, success, bad) ==
    /\ LET W == endSpan(World, spanId, success, bad)
       IN  /\ Becomes(W)
           /\ issued' = IssuedAfterEnd(W, spanId, success)
    /\ last' = Called("endSpan", spanId, NULL, bad)
    /\ UNCHANGED <<shop, ciMode, now, initCalls, initOk, calls, requestIdCounter, inv>>

AddSpanAttribute(spanId, key, value, bad) ==
    /\ Becomes(addSpanAttribute(World, spanId, key, value, bad))
    /\ last' = Called("addSpanAttribute", spanId, NULL, bad)
    /\ UNCHANGED <<shop, ciMode, now, initCalls, initOk, calls, requestIdCounter,
                   inv, issued>>

-----------------------------------------------------------------------------
(* Steps: direct calls of the telemetry primitives *)

\* The call op(args) took the service to W and returned ret.
Primitive(op, args, W, ret, bad) ==
    /\ calls < MaxCalls
    /\ Becomes(W)
    /\ calls' = calls + 1
    /\ last' = CalledPrimitive(op, args, ret, bad)
    /\ UNCHANGED <<shop, ciMode, now, initCalls, initOk, requestIdCounter, inv, issued>>

AddSessionProperty(key, value, permanent, bad) ==
    Primitive("addSessionProperty", <<key, value, permanent>>,
              addSessionProperty(World, key, value, permanent, bad), NULL, bad)

RemoveSessionProperty(key, bad) ==
    Primitive("removeSessionProperty", <<key>>,
              removeSessionProperty(World, key, bad), NULL, bad)

AddBreadcrumb(message, bad) ==
    Primitive("addBreadcrumb", <<message>>, addBreadcrumb(World, message, bad),
              NULL, bad)

LogInfo(message, properties, bad) ==
    Primitive("logInfo", <<message, properties>>,
              logInfo(World, message, properties, bad), NULL, bad)

LogWarning(message, properties, bad) ==
    Primitive("logWarning", <<message, properties>>,
              logWarning(World, message, properties, bad), NULL, bad)

LogError(message, properties, bad) ==
    Primitive("logError", <<message, properties>>,
              logError(World, message, properties, bad), NULL, bad)

LogDebug(message, properties, bad) ==
    Primitive("logDebug", <<message, properties>>,
              logDebug(World, message, properties, bad), NULL, bad)

LogHandledError(error, properties, bad) ==
    Primitive("logHandledError", <<error, properties>>,
              logHandledError(World, error, properties, bad), NULL, bad)

RecordCompletedSpan(name, startTime, endTime, attributes, success, bad) ==
    Primitive("recordCompletedSpan",
              <<name, startTime, endTime, attributes, success>>,
              recordCompletedSpan(World, name, startTime, endTime, attributes,
                                  success, bad), NULL, bad)

\* recordCompletedSpan called without its last argument: `success = true`.
RecordCompletedSpanDefault(name, startTime, endTime, attributes, bad) ==
    Primitive("recordCompletedSpan", <<name, startTime, endTime, attributes>>,
              recordCompletedSpan(World, name, startTime, endTime, attributes,
                                  TRUE, bad), NULL, bad)

RecordNetworkRequest(params, bad) ==
    Primitive("recordNetworkRequest", params,
              recordNetworkRequest(World, params, bad), NULL, bad)

RecordNetworkError(params, bad) ==
    Primitive("recordNetworkError", params,
              recordNetworkError(World, params, bad), NULL, bad)

SetUserIdentifier(userId, bad) ==
    Primitive("setUserIdentifier", <<userId>>,
              setUserIdentifier(World, userId, bad), NULL, bad)

SetUserEmail(email, bad) ==
    Primitive("setUserEmail", <<email>>, setUserEmail(World, email, bad),
              NULL, bad)

SetUsername(name, bad) ==
    Primitive("setUsername", <<name>>, setUsername(World, name, bad), NULL, bad)

ClearUserData(bad) ==
    Primitive("clearUserData", <<>>, clearUserData(World, bad), NULL, bad)

GetSessionId(id, bad) ==
    Primitive("getSessionId", <<>>, getSessionId(World, id, bad).W,
              getSessionId(World, id, bad).ret, bad)

GetDeviceId(id, bad) ==
    Primitive("getDeviceId", <<>>, getDeviceId(World, id, bad).W,
              getDeviceId(World, id, bad).ret, bad)

EndCurrentSession(bad) ==
    Primitive("endCurrentSession", <<>>, endCurrentSession(World, bad),
              NULL, bad)

-----------------------------------------------------------------------------
(* Steps: the crash simulation *)

\* The process has ended with an error nothing handled.
Crashed == \E k \in DOMAIN escaped : escaped[k].to = "eventLoop"

Due(k) == timers[k].at + timers[k].delay
PendingTimers == {k \in DOMAIN timers : ~timers[k].fired}

\* A direct call of startCICrashSimulation().
StartCICrashSimulation(r1, r2, bad) ==
    Primitive("startCICrashSimulation", <<>>,
              startCICrashSimulation(World, r1, r2, bad), NULL, bad)

ForceEmbraceCrash(bad) ==
    Primitive("forceEmbraceCrash", <<>>, forceEmbraceCrash(World, bad), NULL, bad)

\* What the callback of timer k does to the service.
Callback(W, k, bad) ==
    IF timers[k].fn = "triggerCICrash" THEN triggerCICrash(W, bad)
    ELSE throwCICrash(W)

\* The event loop runs the callback of timer k, the pending timer that is due
\* first, once its delay has passed.
FireTimer(k, bad) ==
    /\ k \in PendingTimers
    /\ \A j \in PendingTimers : Due(k) <= Due(j)
    /\ now' = IF now < Due(k) THEN Due(k) ELSE now
    /\ Becomes(Callback([World EXCEPT !.timers[k].fired = TRUE], k, bad))
    /\ last' = NoCall
    /\ UNCHANGED <<shop, ciMode, initCalls, initOk, calls, requestIdCounter, inv,
                   issued>>

-----------------------------------------------------------------------------
(* Steps: APIService.executeRequest, one invocation per slot *)

BeginStep(i, opts, requestId, r) ==
    /\ Becomes(r.W)
    /\ issued' = IssuedAfterStart(r, i)
    /\ inv' = [inv EXCEPT ![i] =
           [@ EXCEPT !.pc = IF Raised(World, r.W) THEN "done" ELSE "awaiting",
                     !.delivered = IF Raised(World, r.W) THEN Reject(Thrown(r.W))
                                   ELSE @,
                     !.opts = opts,
                     !.requestId = requestId, !.startTime = now,
                     !.spanId = r.ret,
                     !.span = IF r.ret = NULL THEN 0 ELSE Len(r.W.spans),
                     !.initAtStart = isInitialized /\ tracer]]

\* The call of executeRequest up to its await: the request id, the start
\* time, the span, and the call of operation().
ExecuteRequest(i, opts, bad) ==
    /\ inv[i].pc = "idle"
    /\ \A j \in Invocations : j < i => inv[j].pc # "idle"
    /\ Len(spans) < MaxSpans
    /\ BeginStep(i, opts, generateRequestId(requestIdCounter),
                 executeRequestBegin(World, opts,
                                     generateRequestId(requestIdCounter), bad))
    /\ requestIdCounter' = requestIdCounter + 1
    /\ last' = NoCall
    /\ UNCHANGED <<shop, ciMode, now, initCalls, initOk, calls>>

\* History of an invocation I whose continuation took the service from the
\* current state to r.W and delivered r.delivered.
Resumed(I, r) ==
    LET added == SubSeq(r.W.sdkLog, Len(sdkLog) + 1, Len(r.W.sdkLog))
        nReq == Cardinality({k \in DOMAIN added :
                               added[k].call = "recordNetworkRequest"})
        nErr == Cardinality({k \in DOMAIN added :
                               added[k].call = "logNetworkClientError"})
        endedNow == {x \in DOMAIN spans : ~spans[x].ended /\ r.W.spans[x].ended}
    IN  [I EXCEPT !.pc = "done", !.delivered = r.delivered,
                  !.ended = endedNow,
                  !.wrote = {x \in DOMAIN spans :
                               spans[x].attrs # r.W.spans[x].attrs},
                  !.marked = {x \in DOMAIN spans :
                                spans[x].status # r.W.spans[x].status},
                  !.records = nReq, !.errors = nErr,
                  !.initAtEnd = isInitialized]

ResumeStep(i, I, r) ==
    /\ Becomes(r.W)
    /\ issued' = IF I.spanId = NULL THEN issued
                 ELSE IssuedAfterEnd(r.W, I.spanId, r.delivered.kind = "resolve")
    /\ inv' = [inv EXCEPT ![i] = Resumed(I, r)]
    /\ last' = NoCall

\* The promise operation() returned settles with `outcome`, and
\* executeRequest resumes after its await and runs to its return or throw
\* (the continuation is a microtask of the settlement: no timer, no event
\* handler and no clock tick comes between them).
ExecuteRequestResume(i, outcome, bad) ==
    /\ inv[i].pc = "awaiting"
    /\ ResumeStep(i, [inv[i] EXCEPT !.outcome = outcome],
                  executeRequestResume(World, [inv[i] EXCEPT !.outcome = outcome],
                                       bad))
    /\ UNCHANGED <<shop, ciMode, now, initCalls, initOk, calls, requestIdCounter>>

-----------------------------------------------------------------------------
(* Steps: the cart, the checkout and the sign-in of the application *)

\* A cart operation took the service to r.W and the cart to r.items.
CartStep(r) ==
    /\ calls < MaxCart
    /\ Becomes(r.W)
    /\ items' = r.items
    /\ calls' = calls + 1
    /\ last' = NoCall
    /\ UNCHANGED <<checkout, auth, ciMode, now, initCalls, initOk,
                   requestIdCounter, inv, issued>>

AddItem(product, quantity) == CartStep(addItem(World, items, product, quantity, "none"))
RemoveItem(itemId) == CartStep(removeItem(World, items, itemId, "none"))
UpdateQuantity(itemId, quantity) ==
    CartStep(updateQuantity(World, items, itemId, quantity, "none"))
ClearCart == CartStep(clearCart(World, items, "none"))

\* The user places the order at the review step; a checkout makes two
\* requests, each with its span.
ProcessOrder ==
    /\ checkout.pc = "review" /\ items # <<>>
    /\ Len(spans) + 2 <= MaxSpans /\ requestIdCounter + 2 <= MaxInv
    /\ Becomes(processOrder(World, items, requestIdCounter).W)
    /\ checkout' = processOrder(World, items, requestIdCounter).checkout
    /\ requestIdCounter' = requestIdCounter + 1
    /\ last' = NoCall
    /\ UNCHANGED <<items, auth, ciMode, now, initCalls, initOk, calls, inv,
                   issued>>

\* The delay of processPayment is over.
ProcessOrderPaid(r) ==
    /\ checkout.pc = "paying"
    /\ Becomes(processOrderPaid(World, checkout, r, requestIdCounter).W)
    /\ checkout' = processOrderPaid(World, checkout, r, requestIdCounter).checkout
    /\ requestIdCounter' = IF checkout'.pc = "ordering" THEN requestIdCounter + 1
                           ELSE requestIdCounter
    /\ last' = NoCall
    /\ UNCHANGED <<items, auth, ciMode, now, initCalls, initOk, calls, inv,
                   issued>>

\* The delay of createOrder is over.
ProcessOrderCreated ==
    /\ checkout.pc = "ordering"
    /\ Becomes(processOrderCreated(World, checkout, items).W)
    /\ checkout' = processOrderCreated(World, checkout, items).checkout
    /\ items' = processOrderCreated(World, checkout, items).items
    /\ last' = NoCall
    /\ UNCHANGED <<auth, ciMode, now, initCalls, initOk, calls,
                   requestIdCounter, inv, issued>>

\* The user signs in with a password or as a guest.
Login(method) ==
    /\ auth.authState \in {"unauthenticated", "error"}
    /\ Len(spans) < MaxSpans /\ requestIdCounter < MaxInv
    /\ Becomes(login(World, auth, method, requestIdCounter).W)
    /\ auth' = login(World, auth, method, requestIdCounter).auth
    /\ requestIdCounter' = requestIdCounter + 1
    /\ last' = NoCall
    /\ UNCHANGED <<items, checkout, ciMode, now, initCalls, initOk, calls, inv,
                   issued>>

\* The delay of the API call is over.
LoginSettled(r) ==
    /\ auth.authState = "authenticating"
    /\ Becomes(loginSettled(World, auth, r).W)
    /\ auth' = loginSettled(World, auth, r).auth
    /\ last' = NoCall
    /\ UNCHANGED <<items, checkout, ciMode, now, initCalls, initOk, calls,
                   requestIdCounter, inv, issued>>

\* The user confirms the Sign Out alert of the profile screen.
HandleLogout ==
    /\ auth.authState = "authenticated"
    /\ Becomes(handleLogout(World, auth).W)
    /\ auth' = handleLogout(World, auth).auth
    /\ last' = NoCall
    /\ UNCHANGED <<items, checkout, ciMode, now, initCalls, initOk, calls,
                   requestIdCounter, inv, issued>>

-----------------------------------------------------------------------------
(* Specifications *)

\* Handles a direct caller can pass: those it was given, and one that no
\* start call returns.
UnknownHandle == "test_user_action_x"
CallerHandles ==
    {issued[k].handle : k \in {x \in DOMAIN issued : issued[x].owner = 0}}
        \cup {UnknownHandle}

\* The primitives endSpan(spanId, success) calls: setStatus only when
\* success is false.
EndFaults(success) ==
    IF success THEN {"none", "end"} ELSE {"none", "setStatus", "end"}

InitializeFaults ==
    {"none", "initialize", "tracerProvider", "getTracer", "addBreadcrumb",
     "addSessionProperty"}
ResumeFaults ==
    {"none", "recordNetworkRequest", "logNetworkClientError", "setAttribute",
     "setStatus", "end"}

\* The application as a whole.
Next ==
    \/ Tick
    \/ \E started \in BOOLEAN, r1 \in RollDraws, r2 \in DelayDraws,
          bad \in InitializeFaults : Initialize(started, r1, r2, bad)
    \/ \E name \in SpanNames, attributes \in AttrInputs,
          bad \in {"none", "startSpan"} : StartSpan(name, attributes, bad)
    \/ \E screenName \in ScreenNames, bad \in {"none", "startView"} :
          StartScreenViewSpan(screenName, bad)
    \/ \E spanId \in CallerHandles, success \in BOOLEAN :
          \E bad \in EndFaults(success) : EndSpan(spanId, success, bad)
    \/ \E spanId \in CallerHandles, bad \in {"none", "setAttribute"} :
          AddSpanAttribute(spanId, "completed", "true", bad)
    \/ \E i \in Invocations, opts \in Descriptors,
          bad \in {"none", "startSpan"} : ExecuteRequest(i, opts, bad)
    \/ \E i \in Invocations, outcome \in Outcomes, bad \in ResumeFaults :
          ExecuteRequestResume(i, outcome, bad)

Spec == Init /\ [][Next]_vars

\* The committed configuration template sets no ciMode.
InitTemplate == Init /\ ~ciMode

\* initialize() as the span registry sees it: started or not, with or
\* without a tracer.
InitializeForSpans ==
    \E started \in BOOLEAN, bad \in {"none", "tracerProvider"} :
        initCalls = 0 /\ Initialize(started, 0, 0, bad)

\* The span registry under direct callers.
NextRegistry ==
    \/ Tick
    \/ InitializeForSpans
    \/ \E name \in SpanNames, attributes \in AttrInputs,
          bad \in {"none", "startSpan"} : StartSpan(name, attributes, bad)
    \/ \E screenName \in ScreenNames, bad \in {"none", "startView"} :
          StartScreenViewSpan(screenName, bad)
    \/ \E spanId \in CallerHandles, success \in BOOLEAN :
          \E bad \in EndFaults(success) : EndSpan(spanId, success, bad)

SpecRegistry == InitTemplate /\ [][NextRegistry]_vars

\* The network wrapper in the application as shipped: App calls initialize()
\* once at mount, and no backend primitive throws.
NextWrapperNominal ==
    \/ Tick
    \/ \E started \in BOOLEAN :
          initCalls = 0 /\ Initialize(started, 0, 0, "none")
    \/ \E i \in Invocations, opts \in Descriptors : ExecuteRequest(i, opts, "none")
    \/ \E i \in Invocations, outcome \in Outcomes :
          ExecuteRequestResume(i, outcome, "none")

SpecWrapperNominal == InitTemplate /\ [][NextWrapperNominal]_vars

\* The session property store under direct callers.
NextSession ==
    \/ InitializeForSpans
    \/ \E key \in PropKeys, value \in PropValues, permanent \in BOOLEAN,
          bad \in {"none", "addSessionProperty"} :
          AddSessionProperty(key, value, permanent, bad)
    \/ \E key \in PropKeys, bad \in {"none", "removeSessionProperty"} :
          RemoveSessionProperty(key, bad)

SpecSession == InitTemplate /\ [][NextSession]_vars

\* The crash simulation in a build with or without CI mode: initialize(),
\* also called again, direct calls of startCICrashSimulation(), and the
\* timers, until the process ends.
RunCrash ==
    \/ \E started \in BOOLEAN, r1 \in RollDraws, r2 \in DelayDraws :
          Initialize(started, r1, r2, "none")
    \/ \E r1 \in {799, 800} :
          calls < MaxProbes /\ StartCICrashSimulation(r1, 0, "none")
    \/ \E k \in DOMAIN timers, bad \in {"none", "addBreadcrumb"} :
          FireTimer(k, bad)

NextCrash == ~Crashed /\ RunCrash

SpecCrash == Init /\ [][NextCrash]_vars

\* The same, in a process that keeps running: the event loop gets to run a
\* timer that is due.
FireSome == ~Crashed /\ \E k \in DOMAIN timers : FireTimer(k, "none")
SpecCrashLive == SpecCrash /\ WF_vars(FireSome)

\* initialize() with each way it can end: the SDK reports started or not, or
\* the SDK, the tracer provider or getTracer throws.
InitializeOnce ==
    \E started \in BOOLEAN,
       bad \in {"none", "initialize", "tracerProvider", "getTracer"} :
        initCalls = 0 /\ Initialize(started, 0, 0, bad)

\* A direct call of a telemetry primitive, with or without the SDK function
\* it reaches throwing.
CallPrimitive ==
    \/ \E bad \in {"none", "addBreadcrumb"} : AddBreadcrumb("CART_UPDATED", bad)
    \/ \E bad \in {"none", "logInfo"} : LogInfo("Order placed", NULL, bad)
    \/ \E bad \in {"none", "logMessage"} :
          LogInfo("Order placed", LogProperties, bad)
    \/ \E bad \in {"none", "logWarning"} : LogWarning("Cart is empty", NULL, bad)
    \/ \E bad \in {"none", "logMessage"} :
          LogError("Crash test triggered", LogProperties, bad)
    \/ \E bad \in {"none", "logInfo"} : LogDebug("Cart loaded", NULL, bad)
    \/ \E bad \in {"none", "logHandledError"} :
          LogHandledError("Payment declined", NULL, bad)
    \/ \E bad \in {"none", "addSessionProperty"} :
          AddSessionProperty("cart_item_count", "1", FALSE, bad)
    \/ \E bad \in {"none", "removeSessionProperty"} :
          RemoveSessionProperty("cart_item_count", bad)
    \/ \E bad \in {"none", "recordNetworkRequest"} :
          RecordNetworkRequest(NetworkParams, bad)
    \/ \E bad \in {"none", "logNetworkClientError"} :
          RecordNetworkError(NetworkErrorParams, bad)
    \/ \E bad \in {"none", "recordCompletedSpan"} :
          RecordCompletedSpan("login_failure", 0, now, <<>>, FALSE, bad)
    \/ \E bad \in {"none", "setUserIdentifier", "addSessionProperty"} :
          SetUserIdentifier("user_1", bad)
    \/ \E bad \in {"none", "setUserEmail"} : SetUserEmail("a@b.c", bad)
    \/ \E bad \in {"none", "setUsername"} : SetUsername("Ann", bad)
    \/ \E bad \in {"none", "clearUserIdentifier", "clearUserEmail",
                    "clearUsername", "removeSessionProperty"} :
          ClearUserData(bad)
    \/ \E bad \in {"none", "getCurrentSessionId"} : GetSessionId("session_1", bad)
    \/ \E bad \in {"none", "getDeviceId"} : GetDeviceId("device_1", bad)
    \/ \E bad \in {"none", "endSession"} : EndCurrentSession(bad)

\* The telemetry primitives under direct callers, on a service whose
\* initialize() ended in any of its ways; no span was started, so endSpan and
\* addSpanAttribute get a handle that was never returned.
NextTelemetry ==
    \/ InitializeOnce
    \/ calls < MaxProbes /\ CallPrimitive
    \/ \E spanId \in CallerHandles, success \in BOOLEAN :
          EndSpan(spanId, success, "none")
    \/ \E spanId \in CallerHandles :
          AddSpanAttribute(spanId, "action", "test_span", "none")

SpecTelemetry == InitTemplate /\ [][NextTelemetry]_vars

\* Application startup: initialize() called up to MaxInit times, in a build
\* with or without CI mode, the SDK reporting started or not, and with or
\* without one of the functions initialize reaches throwing.
StartupFaults ==
    {"none", "initialize", "tracerProvider", "getTracer", "addSessionProperty"}

NextStartup ==
    \/ Tick
    \/ \E started \in BOOLEAN, r1 \in {799, 800}, bad \in StartupFaults :
          Initialize(started, r1, 0, bad)
    \/ calls < MaxProbes /\ AddBreadcrumb("CART_UPDATED", "none")
    \/ \E bad \in {"none", "addBreadcrumb", "logMessage"} :
          calls < MaxProbes /\ ForceEmbraceCrash(bad)

SpecStartup == Init /\ [][NextStartup]_vars

\* The cart and the checkout: initialize() once, the cart operations of the
\* screens, and processOrder with a payment that passes or is declined.
InitializeNominal ==
    \E started \in BOOLEAN : initCalls = 0 /\ Initialize(started, 0, 0, "none")

UnknownItem == "cart-0-none"

NextShop ==
    \/ InitializeNominal
    \/ \E product \in Products : AddItem(product, 2)
    \/ \E itemId \in {items[k].id : k \in DOMAIN items} \cup {UnknownItem} :
          \/ RemoveItem(itemId)
          \/ \E quantity \in {0, 3} : UpdateQuantity(itemId, quantity)
    \/ ClearCart
    \/ ProcessOrder
    \/ \E r \in {49, 50} : ProcessOrderPaid(r)
    \/ ProcessOrderCreated

SpecShop == InitTemplate /\ [][NextShop]_vars

\* Signing in and out: initialize() once, login and guestCheckout with an
\* API call that passes or refuses, and the confirmed sign-out.
NextAuth ==
    \/ Tick
    \/ InitializeNominal
    \/ \E method \in {"email", "guest"} : Login(method)
    \/ \E r \in {99, 100} : LoginSettled(r)
    \/ HandleLogout

SpecAuth == InitTemplate /\ [][NextAuth]_vars

\* Completed spans recorded next to spans that are registered: the callers
\* pass a start time taken earlier and Date.now() as the end time.
CompletedAttributes ==
    << <<"auth.method", "email">>, <<"error.message", "Invalid credentials">> >>

NextCompleted ==
    \/ Tick
    \/ InitializeForSpans
    \/ \E name \in SpanNames, attributes \in AttrInputs :
          StartSpan(name, attributes, "none")
    \/ \E spanId \in CallerHandles : EndSpan(spanId, TRUE, "none")
    \/ \E startTime \in 0..now, success \in BOOLEAN,
          bad \in {"none", "recordCompletedSpan"} :
          /\ calls < MaxProbes
          /\ RecordCompletedSpan("login_failure", startTime, now,
                                 CompletedAttributes, success, bad)
    \/ \E startTime \in 0..now, bad \in {"none", "recordCompletedSpan"} :
          /\ calls < MaxProbes
          /\ RecordCompletedSpanDefault("add_to_cart", startTime, now,
                                        CompletedAttributes, bad)

SpecCompleted == InitTemplate /\ [][NextCompleted]_vars

\* One executeRequest and the direct callers of the primitives, each step
\* with or without one of the backend functions it reaches throwing.
NextFaults ==
    \/ InitializeForSpans
    \/ calls < MaxProbes /\ CallPrimitive
    \/ \E opts \in {d \in Descriptors : d.method = "POST"},
          bad \in {"none", "startSpan"} : ExecuteRequest(1, opts, bad)
    \/ \E outcome \in Outcomes, bad \in ResumeFaults :
          ExecuteRequestResume(1, outcome, bad)

SpecFaults == InitTemplate /\ [][NextFaults]_vars

-----------------------------------------------------------------------------
(* Properties of the network wrapper *)

Started == {i \in Invocations : inv[i].pc # "idle"}
Settled == {i \in Invocations : inv[i].pc = "done"}
InFlight == {i \in Invocations : inv[i].pc = "awaiting"}

\* The issued handles are pairwise distinct.
HandlesDistinct ==
    \A k, l \in DOMAIN issued : issued[k].handle = issued[l].handle => k = l

\* The handle of invocation i was returned by no other start call.
HandleUnshared(i) ==
    Cardinality({k \in DOMAIN issued : issued[k].handle = inv[i].spanId}) = 1

\* C1: executeRequest is transparent to the outcome of the wrapped operation:
\* whatever the operation resolves with the wrapper resolves with, and
\* whatever it rejects with the wrapper rejects with, initialized or not.
C1_OutcomePreserved ==
    \A i \in Settled : inv[i].delivered = inv[i].outcome

IsNetworkRecord(e) == e.call \in {"recordNetworkRequest", "logNetworkClientError"}
NetworkRecords(log) == {k \in DOMAIN log : IsNetworkRecord(log[k])}
EndedSpans(ss) == {x \in DOMAIN ss : ss[x].ended}

\* Invocation i goes from its call to its await in this step.
Begins(i) == inv[i].pc = "idle" /\ inv'[i].pc = "awaiting"
\* The operation of invocation i settles, and i runs to its end, in this step.
Settles(i) == inv[i].pc = "awaiting" /\ inv'[i].pc = "done"

C4_SpanBracketsOperation ==
    /\ \A i \in InFlight :
          inv[i].spanId # NULL => inv[i].spanId \in DOMAIN activeSpans
    /\ InFlight = {} =>
          \A k \in DOMAIN issued : issued[k].owner # 0 =>
              /\ spans[issued[k].span].ended
              /\ issued[k].handle \notin DOMAIN activeSpans

\* C9: under any interleaving, the attribute writes, the status and the end
\* of an invocation are applied to the span its own startSpan call opened
\* and to no other, and no invocation that has settled leaves its span
\* un-ended.
C9_NoCrossTalk ==
    \A i \in Settled :
        /\ inv[i].wrote \subseteq {inv[i].span}
        /\ inv[i].marked \subseteq {inv[i].span}
        /\ inv[i].ended \subseteq {inv[i].span}
        /\ inv[i].span # 0 => spans[inv[i].span].ended

\* What holds of C4 and C9 in the code: the same, for the invocations whose
\* handle no other start call returned.
BracketsWhenUnshared ==
    \A i \in Started : inv[i].spanId # NULL /\ HandleUnshared(i) =>
        /\ i \in InFlight => /\ inv[i].spanId \in DOMAIN activeSpans
                             /\ activeSpans[inv[i].spanId] = inv[i].span
                             /\ ~spans[inv[i].span].ended
        /\ i \in Settled => /\ inv[i].wrote \subseteq {inv[i].span}
                            /\ inv[i].marked \subseteq {inv[i].span}
                            /\ inv[i].ended = {inv[i].span}
                            /\ spans[inv[i].span].ended
                            /\ inv[i].spanId \notin DOMAIN activeSpans

-----------------------------------------------------------------------------
(* Properties of the span registry *)

\* The start calls that returned handle h, and the last of them.
ReturnedAs(h) == {k \in DOMAIN issued : issued[k].handle = h}
Latest(h) == CHOOSE k \in ReturnedAs(h) : \A l \in ReturnedAs(h) : l <= k
\* The span of start call k has not been closed by endSpan.
Open(k) == issued[k].closedWith = "open"
NeverReturned(h) == ReturnedAs(h) = {}
AlreadyEnded(h) == ReturnedAs(h) # {} /\ ~Open(Latest(h))

\* C5: when the handles returned by startSpan / startScreenViewSpan are
\* distinct, activeSpans has as many keys as handles were returned and not
\* yet ended (their span closed by endSpan), and is empty once every
\* returned handle has been ended.
C5_RegistrySize ==
    HandlesDistinct =>
        /\ Cardinality(DOMAIN activeSpans)
             = Cardinality({k \in DOMAIN issued : Open(k)})
        /\ (\A k \in DOMAIN issued : ~Open(k)) => DOMAIN activeSpans = {}

\* Distinct handles were returned, every one was ended, the registry is empty.
C5_Witness ==
    /\ HandlesDistinct
    /\ Len(issued) >= 2
    /\ \A k \in DOMAIN issued : ~Open(k)
    /\ DOMAIN activeSpans = {}

\* C6: endSpan on a handle that was never returned, or that has already been
\* ended (and not been returned again since), ends no span, changes no
\* status and leaves activeSpans as it was.
C6_EndSpanIdempotent ==
    [][(/\ last'.op = "endSpan"
        /\ NeverReturned(last'.arg) \/ AlreadyEnded(last'.arg))
          => UNCHANGED <<activeSpans, spans>>]_vars

\* endSpan was just called a second time on a handle whose span it had closed,
\* with another span still registered.
C6_Witness ==
    /\ last.op = "endSpan" /\ ~last.known
    /\ AlreadyEnded(last.arg)
    /\ DOMAIN activeSpans # {}

\* C7: a span closed by endSpan(h, false) carries the status ERROR, and a
\* span closed by endSpan(h, true) or endSpan(h) carries the status OK.
C7_TerminalStatus ==
    \A k \in DOMAIN issued :
        /\ issued[k].closedWith = "false" => spans[issued[k].span].status = "ERROR"
        /\ issued[k].closedWith = "true" => spans[issued[k].span].status = "OK"

\* What the code does for C7: the step that closes a span by endSpan(h, false)
\* leaves it with the status ERROR, the step that closes it by endSpan(h, true)
\* leaves its status as it was, and a status only ever changes to ERROR, on a
\* span that is not closed.
EndSpanStatus ==
    [][/\ \A k \in DOMAIN issued : Open(k) /\ issued'[k].closedWith # "open" =>
            /\ spans'[issued[k].span].ended /\ ~spans[issued[k].span].ended
            /\ issued'[k].closedWith = "false" =>
                  spans'[issued[k].span].status = "ERROR"
            /\ issued'[k].closedWith = "true" =>
                  spans'[issued[k].span].status = spans[issued[k].span].status
       /\ \A x \in DOMAIN spans : spans'[x].status # spans[x].status =>
            /\ spans'[x].status = "ERROR"
            /\ ~spans[x].ended
            /\ last'.op = "endSpan"
      ]_vars

\* C8: every returned handle is a key of activeSpans, mapped to the span its
\* start call opened, from its return until endSpan is called on it,
\* whatever other start and end calls happen in between.
C8_RegisteredUntilEnded ==
    \A k \in DOMAIN issued : ~issued[k].ended =>
        /\ issued[k].handle \in DOMAIN activeSpans
        /\ activeSpans[issued[k].handle] = issued[k].span

\* What holds of C8 in the code: the same while the handles are distinct.
RegisteredUntilEndedWhenDistinct == HandlesDistinct => C8_RegisteredUntilEnded

\* C10: a start call made while the service is not initialized, or has no
\* tracer, or whose tracer call throws, returns null; a start call that
\* returns null opens no span and leaves activeSpans as it was; a start call
\* that returns a handle has opened one span and stored it under that handle.
C10_StartFailsSoft ==
    [][last'.op \in {"startSpan", "startScreenViewSpan"} =>
         /\ (~isInitialized \/ ~tracer \/ last'.bad \in {"startSpan", "startView"})
               => last'.ret = NULL
         /\ last'.ret = NULL => UNCHANGED <<activeSpans, spans>>
         /\ last'.ret # NULL =>
               /\ Len(spans') = Len(spans) + 1
               /\ SubSeq(spans', 1, Len(spans)) = spans
               /\ ~spans'[Len(spans')].ended
               /\ last'.ret \in DOMAIN activeSpans'
               /\ activeSpans'[last'.ret] = Len(spans')
               /\ \A h \in DOMAIN activeSpans \ {last'.ret} :
                     h \in DOMAIN activeSpans' /\ activeSpans'[h] = activeSpans[h]
      ]_vars

\* startSpan was just called on an initialized service whose tracer threw,
\* with a span registered: it returned null.
C10_Witness ==
    /\ last.op = "startSpan" /\ last.bad = "startSpan" /\ last.ret = NULL
    /\ isInitialized /\ tracer
    /\ DOMAIN activeSpans # {}

-----------------------------------------------------------------------------
(* Properties of the session property store *)

\* The store of the backend after it received the call e: an add that it
\* accepted writes the key with its value and permanence, a remove that it
\* accepted deletes the key.
StoreAfter(S, e) ==
    IF e.threw THEN S
    ELSE IF e.call = "addSessionProperty"
    THEN MapSet(S, e.args[1], [value |-> e.args[2], permanent |-> e.args[3]])
    ELSE IF e.call = "removeSessionProperty" THEN MapDelete(S, e.args[1])
    ELSE S

\* The session properties the backend holds after the calls of log.
RECURSIVE SessionStore(_)
SessionStore(log) ==
    IF Len(log) = 0 THEN [k \in {} |-> 0]
    ELSE StoreAfter(SessionStore(SubSeq(log, 1, Len(log) - 1)), log[Len(log)])

\* The stores S and T agree on every key but k.
SameButFor(S, T, k) ==
    /\ DOMAIN S \ {k} = DOMAIN T \ {k}
    /\ \A j \in DOMAIN S \ {k} : S[j] = T[j]

AddedTo(S, T, k, v, p) ==
    /\ k \in DOMAIN T /\ T[k] = [value |-> v, permanent |-> p]
    /\ SameButFor(S, T, k)

RemovedFrom(S, T, k) ==
    /\ k \notin DOMAIN T
    /\ SameButFor(S, T, k)
    /\ k \notin DOMAIN S => T = S

\* C11: on an initialized service the session properties are a last-write-
\* wins map: a call addSessionProperty(k, v, p) that the backend accepts
\* leaves k holding exactly v with permanence p, whatever k held before; a
\* call removeSessionProperty(k) that the backend accepts leaves k absent,
\* and changes nothing when k was absent; neither changes any other key.
C11_LastWriteWins ==
    [][/\ (last'.op = "addSessionProperty" /\ isInitialized /\ last'.bad = "none")
            => AddedTo(SessionStore(sdkLog), SessionStore(sdkLog'),
                       last'.arg[1], last'.arg[2], last'.arg[3])
       /\ (last'.op = "removeSessionProperty" /\ isInitialized
             /\ last'.bad = "none")
            => RemovedFrom(SessionStore(sdkLog), SessionStore(sdkLog'),
                           last'.arg[1])
      ]_vars

\* The permanent app_version that initialize() seeded was just overwritten
\* by a write that is not permanent, with another key in the store.
C11_Witness ==
    /\ last.op = "addSessionProperty" /\ last.bad = "none"
    /\ last.arg = <<"app_version", "2", FALSE>>
    /\ \E k \in DOMAIN sdkLog :
          /\ sdkLog[k].call = "addSessionProperty"
          /\ sdkLog[k].args = <<"app_version", "1.0.0", TRUE>>
    /\ "app_version" \in DOMAIN SessionStore(sdkLog)
    /\ SessionStore(sdkLog)["app_version"] = [value |-> "2", permanent |-> FALSE]
    /\ "cart_item_count" \in DOMAIN SessionStore(sdkLog)

-----------------------------------------------------------------------------
(* Properties of the telemetry primitives *)

\* The primitives that return nothing, and the two that resolve with an id.
VoidPrimitives ==
    {"addBreadcrumb", "logInfo", "logWarning", "logError", "logDebug",
     "logHandledError", "addSessionProperty", "removeSessionProperty",
     "recordNetworkRequest", "recordNetworkError", "endSpan",
     "addSpanAttribute", "recordCompletedSpan", "setUserIdentifier",
     "setUserEmail", "setUsername", "clearUserData", "endCurrentSession"}
IdPrimitives == {"getSessionId", "getDeviceId"}

\* The step is a call of a primitive that reached no backend function,
\* changed nothing in the service, threw nothing and, for an id, resolved
\* with null.
NoOpCall ==
    /\ UNCHANGED <<isInitialized, tracerProvider, tracer, activeSpans, spans,
                   sdkLog, timers, escaped>>
    /\ last'.op \in IdPrimitives => last'.ret = NULL

\* C12: as long as no initialize() call has returned true, every telemetry
\* primitive is a no-op: no backend call, no change of the service state,
\* nothing thrown; getSessionId and getDeviceId resolve with null.
C12_NoOpBeforeInitialize ==
    [][(~initOk /\ last'.op \in VoidPrimitives \cup IdPrimitives) => NoOpCall]_vars

\* What the guards of the primitives give: the same, as long as isInitialized
\* is false.
NoOpWhenNotInitialized ==
    [][(~isInitialized /\ last'.op \in VoidPrimitives \cup IdPrimitives)
          => NoOpCall]_vars

\* A primitive was called on a service that is not initialized.
CalledNotInitialized ==
    ~isInitialized /\ last.op \in VoidPrimitives \cup IdPrimitives

\* What the invocation I delivers for the outcome its operation settled
\* with when no backend function throws.
DeliveredWithoutFault(I) == executeRequestResume(World, I, "none").delivered

\* C13: no step lets an error of a backend function leave the primitive that
\* called it; a call of executeRequest always gets as far as calling its
\* operation, and what it delivers once the operation has settled is what it
\* delivers for that outcome when nothing throws.
C13_TransportFaultsContained ==
    [][/\ escaped' = escaped
       /\ \A i \in Invocations :
             /\ (inv[i].pc = "idle" /\ inv'[i].pc # "idle")
                   => inv'[i].pc = "awaiting"
             /\ (inv[i].pc = "awaiting" /\ inv'[i].pc = "done")
                   => inv'[i].delivered =
                        DeliveredWithoutFault(
                            [inv[i] EXCEPT !.outcome = inv'[i].outcome])
      ]_vars

\* No error of a backend function has left a service method.
NoEscape == escaped = <<>>

\* recordNetworkRequest threw inside an executeRequest that then resolved
\* with the result of its operation, and the SDK function of the primitive
\* called last threw too.
C13_Witness ==
    /\ \E k \in DOMAIN sdkLog :
          /\ sdkLog[k].threw /\ sdkLog[k].call = "recordNetworkRequest"
          /\ sdkLog[k].args.url = API_BASE_URL \o "/orders"
    /\ inv[1].pc = "done"
    /\ inv[1].delivered = Resolve(inv[1].outcome.value)
    /\ last.op \in VoidPrimitives /\ last.bad # "none"
    /\ sdkLog[Len(sdkLog)].threw

-----------------------------------------------------------------------------
(* Properties of the crash simulation *)

\* The SDK calls that set the session property key, as positions of log.
Sets(log, key) ==
    {k \in DOMAIN log : log[k].call = "addSessionProperty" /\ log[k].args[1] = key}

\* The step runs an arming evaluation: it draws the roll.
Evaluates == Len(randoms') > Len(randoms)
NewRoll == FloorRandom(randoms'[Len(randoms) + 1], 100)
\* The step arms: it sets a crash timer.
Arms == Len(timers') > Len(timers) /\ timers'[Len(timers')].fn = "triggerCICrash"
\* What the step added to the SDK's log, as positions of sdkLog'.
Added == (Len(sdkLog) + 1) .. Len(sdkLog')

\* C14: with CI mode off no random number is drawn, no timer exists, neither
\* ci_mode nor ci_crash_scheduled is ever set and the process never ends
\* with the injected fault.
C14_IdleWithoutCIMode ==
    ~ciMode =>
        /\ randoms = <<>>
        /\ timers = <<>>
        /\ Sets(sdkLog, "ci_mode") = {} /\ Sets(sdkLog, "ci_crash_scheduled") = {}
        /\ ~Crashed

\* startCICrashSimulation() was called on an initialized service of a build
\* without CI mode.
C14_Witness ==
    ~ciMode /\ isInitialized /\ initOk /\ last.op = "startCICrashSimulation"

\* C15: with CI mode on, every call of startCICrashSimulation draws a roll in
\* 0..99; when the roll is above 79 it draws once more and sets exactly one
\* timer, not yet fired, for triggerCICrash with a delay d, 20000 <= d < 35000,
\* and otherwise it draws no more and sets no timer.
C15_ArmedAboveThreshold ==
    [][/\ (ciMode /\ last'.op = "startCICrashSimulation") => Evaluates
       /\ Evaluates =>
            /\ ciMode /\ NewRoll \in 0..99
            /\ IF NewRoll > 79
               THEN /\ Len(randoms') = Len(randoms) + 2
                    /\ Len(timers') = Len(timers) + 1
                    /\ SubSeq(timers', 1, Len(timers)) = timers
                    /\ timers'[Len(timers')].fn = "triggerCICrash"
                    /\ ~timers'[Len(timers')].fired
                    /\ timers'[Len(timers')].delay >= 20000
                    /\ timers'[Len(timers')].delay < 35000
               ELSE /\ Len(randoms') = Len(randoms) + 1
                    /\ timers' = timers
      ]_vars

\* Evaluations have drawn the rolls 79 and 80 and the longest delay: the
\* first armed nothing, the second set the one timer there is.
C15_Witness ==
    /\ ciMode /\ Len(randoms) = 3
    /\ FloorRandom(randoms[1], 100) = 79 /\ FloorRandom(randoms[2], 100) = 80
    /\ randoms[3] = RandomGrain - 1
    /\ Len(timers) = 1 /\ timers[1].delay = 34985

\* C16: on an initialized service every arming evaluation hands the backend
\* ci_crash_scheduled exactly once, as "true" when it arms and as "false"
\* when it does not, and when it arms it does so before it sets the timer.
C16_DecisionRecorded ==
    [][(Evaluates /\ isInitialized') =>
          \E k \in Added :
              /\ Sets(sdkLog', "ci_crash_scheduled") \cap Added = {k}
              /\ sdkLog'[k].args[2] = IF Arms THEN "true" ELSE "false"
              /\ Arms => timers'[Len(timers')].after >= k
      ]_vars

\* An armed session: its last SDK call is ci_crash_scheduled = "true", and
\* the timer was set after it.
C16_Witness ==
    /\ ciMode /\ isInitialized /\ Len(timers) = 1 /\ ~timers[1].fired
    /\ Len(sdkLog) \in Sets(sdkLog, "ci_crash_scheduled")
    /\ sdkLog[Len(sdkLog)].args[2] = "true"
    /\ timers[1].after = Len(sdkLog)

\* C17 as stated: an arming evaluation on an initialized service sets
\* ci_mode = "enabled" when it arms, and only then.
C17_ModeOnlyWhenArmed ==
    [][(Evaluates /\ isInitialized') =>
          (Arms <=> Sets(sdkLog', "ci_mode") \cap Added # {})]_vars

\* C17: on an initialized service every arming evaluation, whether it arms
\* or not, hands the backend ci_mode = "enabled" exactly once, before
\* ci_crash_scheduled.
C17_ModeOnEveryEvaluation ==
    [][(Evaluates /\ isInitialized') =>
          \E k \in Added :
              /\ Sets(sdkLog', "ci_mode") \cap Added = {k}
              /\ sdkLog'[k].args = <<"ci_mode", "enabled", FALSE>>
              /\ \A j \in Sets(sdkLog', "ci_crash_scheduled") \cap Added : k < j
      ]_vars

\* A session whose only evaluation did not arm, and that is marked ci_mode.
C17_Witness ==
    /\ ciMode /\ isInitialized /\ Len(randoms) = 1 /\ timers = <<>>
    /\ Sets(sdkLog, "ci_mode") # {}
    /\ sdkLog[Len(sdkLog)].args = <<"ci_crash_scheduled", "false", FALSE>>

\* The number of arming evaluations behind the draws rs: each draws a roll,
\* and one more number when the roll arms.
RECURSIVE Evaluations(_)
Evaluations(rs) ==
    IF Len(rs) = 0 THEN 0
    ELSE IF willCrash(FloorRandom(rs[1], 100))
    THEN 1 + Evaluations(SubSeq(rs, 3, Len(rs)))
    ELSE 1 + Evaluations(SubSeq(rs, 2, Len(rs)))

CrashTimers == {k \in DOMAIN timers : timers[k].fn = "triggerCICrash"}

\* C18: the arming decision is evaluated at most once in a session, so that
\* at most one crash timer is ever set and a session that was not armed
\* stays so.
C18_OneShot ==
    /\ Evaluations(randoms) <= 1
    /\ Cardinality(CrashTimers) <= 1

\* The CI_CRASH_TRIGGERED breadcrumb and the error log reached the SDK, in
\* this order, before the grace timer k was set.
TelemetryBefore(k) ==
    \E i \in DOMAIN sdkLog, j \in DOMAIN sdkLog :
        /\ i < j /\ j <= timers[k].after
        /\ sdkLog[i].call = "addBreadcrumb"
        /\ sdkLog[i].args = <<"CI_CRASH_TRIGGERED">>
        /\ sdkLog[j].call = "logMessage"
        /\ sdkLog[j].args[1] = "CI automated crash test"

\* C19, its order: when the process has ended with the injected fault, the
\* breadcrumb and then the error log were emitted before the grace timer
\* was set, and the fault came no sooner than 500 ms after that.
C19_TelemetryPrecedesFault ==
    Crashed =>
        \E k \in DOMAIN timers :
            /\ timers[k].fn = "throw" /\ timers[k].fired
            /\ now >= timers[k].at + 500
            /\ TelemetryBefore(k)

\* C19, its progress: in a process that keeps running a pending timer leads
\* to the fault.
ArmedLeadsToFault == (PendingTimers # {}) ~> Crashed

\* The order of C19 where the service is initialized when the crash timer
\* fires: the step emits the breadcrumb and then the error log and sets the
\* grace timer after them.
TriggerEmitsWhenInitialized ==
    [][\A k \in DOMAIN timers :
          (timers[k].fn = "triggerCICrash" /\ ~timers[k].fired
             /\ timers'[k].fired /\ isInitialized)
          => /\ Len(timers') = Len(timers) + 1
             /\ timers'[Len(timers')].fn = "throw"
             /\ timers'[Len(timers')].delay = 500
             /\ \E i \in Added, j \in Added :
                   /\ i < j /\ j <= timers'[Len(timers')].after
                   /\ sdkLog'[i].call = "addBreadcrumb"
                   /\ sdkLog'[i].args = <<"CI_CRASH_TRIGGERED">>
                   /\ sdkLog'[j].call = "logMessage"
                   /\ sdkLog'[j].args[1] = "CI automated crash test"
      ]_vars

\* The process ended with the fault after the telemetry had been emitted.
CrashedAfterTelemetry ==
    Crashed /\ \E k \in DOMAIN timers : timers[k].fn = "throw" /\ TelemetryBefore(k)

-----------------------------------------------------------------------------
(* Properties of the success path of executeRequest *)

\* The step resumes invocation i, whose span was started, on an initialized
\* service, and the wrapper resolves.
SuccessStep(i) ==
    /\ inv[i].pc = "awaiting" /\ inv'[i].pc = "done"
    /\ inv'[i].delivered.kind = "resolve"
    /\ isInitialized /\ inv[i].spanId # NULL

\* The step handed the SDK one call, the record of the request of i.
RecordOfSuccess(i, e) ==
    /\ Added = {Len(sdkLog')}
    /\ e.call = "recordNetworkRequest" /\ ~e.threw
    /\ e.args.url = API_BASE_URL \o inv[i].opts.endpoint
    /\ e.args.method = inv[i].opts.method
    /\ e.args.statusCode = 200
    /\ e.args.bytesSent = IF inv[i].opts.body = JUndefined THEN 0
                          ELSE Len(JSONStringify(inv[i].opts.body))
    /\ e.args.bytesReceived = Len(JSONStringify(inv'[i].delivered.value))
    /\ e.args.startTime = inv[i].startTime
    /\ e.args.startTime <= e.args.endTime /\ e.args.endTime = now

\* After the step the span x is ended, without the ERROR status, and carries
\* the status code and the duration of the record e.
SpanOfSuccess(x, e) ==
    /\ spans'[x].ended /\ ~spans[x].ended
    /\ spans'[x].status # "ERROR"
    /\ <<"http.status_code", "200">> \in spans'[x].attrs
    /\ <<"duration_ms", ToString(e.args.endTime - e.args.startTime)>>
          \in spans'[x].attrs

\* C20: on the success path the wrapper emits the record of the request
\* (status 200, the serialized lengths of body and result, startTime <=
\* endTime) and tags the span its startSpan call opened with the status code
\* and the duration before it ends it with success.
C20_SuccessPath ==
    [][\A i \in Invocations : SuccessStep(i) =>
          /\ RecordOfSuccess(i, sdkLog'[Len(sdkLog')])
          /\ SpanOfSuccess(inv[i].span, sdkLog'[Len(sdkLog')])]_vars

\* What holds of C20 in the code: the record always, the span when no other
\* start call returned the handle of the invocation.
SuccessPathWhenUnshared ==
    [][\A i \in Invocations : SuccessStep(i) =>
          /\ RecordOfSuccess(i, sdkLog'[Len(sdkLog')])
          /\ HandleUnshared(i) =>
                SpanOfSuccess(inv[i].span, sdkLog'[Len(sdkLog')])]_vars

\* A request with a body has resolved on an initialized service after the
\* clock moved, and its own span is ended.
SucceededWithBody ==
    \E i \in Settled :
        /\ inv[i].delivered.kind = "resolve" /\ inv[i].spanId # NULL
        /\ inv[i].opts.method = "POST" /\ inv[i].startTime < now
        /\ HandleUnshared(i) /\ spans[inv[i].span].ended
        /\ <<"duration_ms", "1">> \in spans[inv[i].span].attrs

-----------------------------------------------------------------------------
(* Properties of the failure path of executeRequest *)

\* The step resumes invocation i, whose span was started, on an initialized
\* service, with its operation rejecting.
FailureStep(i) ==
    /\ inv[i].pc = "awaiting" /\ inv'[i].pc = "done"
    /\ inv'[i].outcome.kind = "reject"
    /\ isInitialized /\ inv[i].spanId # NULL

\* The step handed the SDK one call, the error record of the request of i,
\* and the wrapper rejects with the failure of the operation.
RecordOfFailure(i, e) ==
    /\ Added = {Len(sdkLog')}
    /\ e.call = "logNetworkClientError" /\ ~e.threw
    /\ e.args.url = API_BASE_URL \o inv[i].opts.endpoint
    /\ e.args.method = inv[i].opts.method
    /\ e.args.errorType = "api_error"
    /\ e.args.errorMessage = inv'[i].outcome.value.s
    /\ e.args.startTime = inv[i].startTime /\ e.args.endTime = now
    /\ inv'[i].delivered = inv'[i].outcome

\* After the step the span x is ended with the ERROR status and carries the
\* message of the error.
SpanOfFailure(x, message) ==
    /\ spans'[x].ended /\ ~spans[x].ended
    /\ spans'[x].status = "ERROR"
    /\ <<"error.message", message>> \in spans'[x].attrs

\* C21: on the failure path the wrapper emits the error record (api_error,
\* the message of the operation's failure) and no request record, tags the
\* span its startSpan call opened with error.message and ends it with
\* success = false, all in the step that rejects.
C21_FailurePath ==
    [][\A i \in Invocations : FailureStep(i) =>
          /\ RecordOfFailure(i, sdkLog'[Len(sdkLog')])
          /\ SpanOfFailure(inv[i].span, inv'[i].outcome.value.s)]_vars

\* What holds of C21 in the code: the record always, the span when no other
\* start call returned the handle of the invocation.
FailurePathWhenUnshared ==
    [][\A i \in Invocations : FailureStep(i) =>
          /\ RecordOfFailure(i, sdkLog'[Len(sdkLog')])
          /\ HandleUnshared(i) =>
                SpanOfFailure(inv[i].span, inv'[i].outcome.value.s)]_vars

\* A request was rejected with "Payment declined" on an initialized service
\* and its own span is ended with ERROR.
FailedWithMessage ==
    \E i \in Settled :
        /\ inv[i].delivered = Reject(JErr("Payment declined"))
        /\ inv[i].spanId # NULL /\ HandleUnshared(i)
        /\ spans[inv[i].span].status = "ERROR" /\ spans[inv[i].span].ended
        /\ inv[i].errors = 1 /\ inv[i].records = 0

(***************************************************************************)
(* Properties of the request identifier                                    *)
(***************************************************************************)

\* The identifier whose counter component is c and whose time component is t.
IdOf(c, t) == "req_" \o ToString(c) \o "_" \o ToString(t)

\* C22: the counter component of the identifier of the i-th invocation of
\* executeRequest is i, so it is strictly greater than that of every earlier
\* invocation; no two invocations carry the same identifier, whether they
\* start in the same millisecond or are in flight together; the span of an
\* invocation carries its identifier.
C22_RequestIdsIncrease ==
    /\ \A i \in Started :
          /\ inv[i].requestId = IdOf(i, inv[i].startTime)
          /\ inv[i].spanId # NULL
                => <<"request.id", inv[i].requestId>> \in spans[inv[i].span].attrs
    /\ \A i, j \in Started : i < j => inv[i].requestId # inv[j].requestId
    /\ requestIdCounter = Cardinality(Started)

\* Two invocations started in the same millisecond are in flight together
\* and carry different identifiers.
SameMillisecondInFlight ==
    \E i, j \in InFlight :
        /\ i < j /\ inv[i].startTime = inv[j].startTime
        /\ inv[i].requestId # inv[j].requestId

(***************************************************************************)
(* Properties of recordCompletedSpan                                       *)
(***************************************************************************)

\* The step is a call of recordCompletedSpan.
CompletedStep == calls' = calls + 1 /\ last'.op = "recordCompletedSpan"

\* The status a call with the arguments a asks for: OK when success is true
\* or not given, ERROR when it is false.
StatusAsked(a) == IF Len(a) = 4 \/ a[5] THEN "OK" ELSE "ERROR"

\* The closed span the call with the arguments a describes.
CompletedSpan(a) ==
    [name |-> a[1], startTime |-> a[2], endTime |-> a[3], attributes |-> a[4],
     status |-> StatusAsked(a)]

\* C23: a call of recordCompletedSpan leaves activeSpans and every span
\* reached through it as they were, initialized or not, whatever success is;
\* when the service is initialized and has its tracer the backend receives
\* exactly one closed span, with the given name, start time, end time and
\* attributes and with status OK when success is true or omitted and ERROR
\* when it is false; otherwise the backend receives nothing.  The call never
\* throws.
C23_CompletedSpanFrame ==
    [][CompletedStep =>
         /\ activeSpans' = activeSpans
         /\ spans' = spans
         /\ isInitialized' = isInitialized /\ tracer' = tracer
         /\ escaped' = escaped
         /\ sdkLog' = IF isInitialized /\ tracer
                       THEN Append(sdkLog,
                                   [call |-> "recordCompletedSpan",
                                    args |-> CompletedSpan(last'.arg),
                                    threw |-> last'.bad = "recordCompletedSpan"])
                       ELSE sdkLog
      ]_vars

\* A failed completed span was recorded while a handle was registered.
CompletedWhileRegistered ==
    /\ last.op = "recordCompletedSpan" /\ Len(last.arg) = 5 /\ ~last.arg[5]
    /\ DOMAIN activeSpans # {}
    /\ sdkLog # <<>>
    /\ sdkLog[Len(sdkLog)].call = "recordCompletedSpan"
    /\ sdkLog[Len(sdkLog)].args.status = "ERROR"
    /\ ~sdkLog[Len(sdkLog)].threw

(***************************************************************************)
(* Properties of initialize                                                *)
(***************************************************************************)

\* The step is a call of initialize().
InitializeStep == initCalls' = initCalls + 1

\* The default session properties, in the order they are seeded, each with
\* its permanence.
SeedKeys ==
    << <<"app_version", TRUE>>, <<"platform", TRUE>>, <<"app_type", TRUE>>,
       <<"sdk_test_mode", FALSE>>, <<"environment", FALSE>>,
       <<"session_run_source", FALSE>> >>

\* The calls of log after position from start with the breadcrumb
\* APP_INITIALIZED followed by the default session properties.
Seeded(log, from) ==
    /\ Len(log) >= from + 1 + Len(SeedKeys)
    /\ log[from + 1].call = "addBreadcrumb"
    /\ log[from + 1].args = <<"APP_INITIALIZED">>
    /\ \A k \in DOMAIN SeedKeys :
          /\ log[from + 1 + k].call = "addSessionProperty"
          /\ log[from + 1 + k].args[1] = SeedKeys[k][1]
          /\ log[from + 1 + k].args[3] = SeedKeys[k][2]

\* The positions of sdkLog' at which the step set a property of the crash
\* scheduler.
SchedulerSets ==
    Added \cap (Sets(sdkLog', "ci_mode") \cup Sets(sdkLog', "ci_crash_scheduled"))

\* C24: a call of initialize() creates the tracer only when the SDK reported
\* started = true; a call that returns true has the tracer, has emitted the
\* breadcrumb APP_INITIALIZED and then the six default session properties in
\* order with their permanence, and only after all of them the properties
\* and the timer of the arming evaluation, which runs exactly in a CI build;
\* the evaluation runs in no call that returns false; a call in which the SDK
\* reported started = false or threw returns false, creates no tracer, emits
\* nothing and evaluates nothing.
C24_SeedingOrder ==
    [][InitializeStep =>
         /\ (tracer' # tracer \/ tracerProvider' # tracerProvider)
               => last'.arg = <<TRUE>>
         /\ last'.ret =>
               /\ last'.arg = <<TRUE>>
               /\ isInitialized' /\ tracerProvider' /\ tracer'
               /\ Seeded(sdkLog', Len(sdkLog))
               /\ Evaluates <=> ciMode
               /\ ciMode => SchedulerSets # {}
               /\ \A k \in SchedulerSets : k > Len(sdkLog) + 1 + Len(SeedKeys)
               /\ Arms => timers'[Len(timers')].after
                              > Len(sdkLog) + 1 + Len(SeedKeys)
         /\ ~last'.ret =>
               /\ ~Evaluates /\ timers' = timers
               /\ sdkLog' = sdkLog
         /\ last'.arg # <<TRUE>> =>
               /\ ~last'.ret
               /\ tracer' = tracer /\ tracerProvider' = tracerProvider
      ]_vars

\* initialize() has just returned true in a CI build and armed the timer
\* after seeding the session.
SeededThenArmed ==
    /\ last.op = "initialize" /\ last.ret /\ ciMode
    /\ initCalls = 1
    /\ Seeded(sdkLog, 0)
    /\ timers # <<>> /\ timers[1].after > 1 + Len(SeedKeys)

(***************************************************************************)
(* Properties of forceEmbraceCrash                                         *)
(***************************************************************************)

\* The step is a call of forceEmbraceCrash().
ForceStep == calls' = calls + 1 /\ last'.op = "forceEmbraceCrash"

\* C25: every call of forceEmbraceCrash throws the intentional error to its
\* caller, initialized or not and whether or not a backend call fails; on an
\* initialized service the backend has received, by the time the error is
\* thrown, the breadcrumb CRASH_TEST_TRIGGERED and then the error log, and
\* nothing else; on a service that is not initialized it has received
\* nothing.
C25_CrashReachesCaller ==
    [][ForceStep =>
         /\ Len(escaped') = Len(escaped) + 1
         /\ escaped'[Len(escaped')] = [error |-> EmbraceCrashTest, to |-> "caller"]
         /\ SubSeq(escaped', 1, Len(escaped)) = escaped
         /\ IF isInitialized
            THEN /\ Len(sdkLog') = Len(sdkLog) + 2
                 /\ SubSeq(sdkLog', 1, Len(sdkLog)) = sdkLog
                 /\ sdkLog'[Len(sdkLog) + 1].call = "addBreadcrumb"
                 /\ sdkLog'[Len(sdkLog) + 1].args = <<"CRASH_TEST_TRIGGERED">>
                 /\ sdkLog'[Len(sdkLog) + 2].call = "logMessage"
                 /\ sdkLog'[Len(sdkLog) + 2].args
                       = <<"Crash test triggered", "error", LogProperties, TRUE>>
            ELSE sdkLog' = sdkLog
      ]_vars

\* forceEmbraceCrash threw to its caller on an initialized service although
\* the breadcrumb could not be sent.
CrashedDespiteTransport ==
    /\ last.op = "forceEmbraceCrash" /\ last.bad = "addBreadcrumb"
    /\ isInitialized
    /\ escaped # <<>>
    /\ escaped[Len(escaped)] = [error |-> EmbraceCrashTest, to |-> "caller"]
    /\ Len(sdkLog) >= 2
    /\ sdkLog[Len(sdkLog) - 1].call = "addBreadcrumb" /\ sdkLog[Len(sdkLog) - 1].threw
    /\ sdkLog[Len(sdkLog)].call = "logMessage" /\ ~sdkLog[Len(sdkLog)].threw

(***************************************************************************)
(* Properties of the value initialize returns                              *)
(***************************************************************************)

\* C26: when a call of initialize() has just completed, it returned true
\* exactly if isInitialized is true and the tracer is set, and it returned
\* false exactly if isInitialized is false.
C26_ReturnAgreesWithState ==
    last.op = "initialize" =>
        /\ last.ret <=> (isInitialized /\ tracer)
        /\ ~last.ret <=> ~isInitialized

\* The part that holds: a call that returned true left the service
\* initialized with its tracer, and a call that returned false with nothing
\* having thrown left it not initialized.
ReturnAgreesWithoutFault ==
    last.op = "initialize" =>
        /\ last.ret => isInitialized /\ tracer
        /\ (~last.ret /\ last.bad = "none") => ~isInitialized

\* initialize() returned false and left the service initialized.
ReturnedFalseInitialized ==
    last.op = "initialize" /\ ~last.ret /\ isInitialized

(***************************************************************************)
(* Properties of the pending crash timer                                   *)
(***************************************************************************)

\* The backend was handed ci_crash_scheduled = "true".
ScheduledRecorded ==
    \E j \in Sets(sdkLog, "ci_crash_scheduled") : sdkLog[j].args[2] = "true"

\* C27: whenever a timer of the crash scheduler is pending, the backend has
\* been handed ci_crash_scheduled = "true".
C27_PendingOnlyWhenScheduled ==
    PendingTimers # {} => ScheduledRecorded

\* The part that holds: as long as only initialize() has run the scheduler,
\* a pending timer implies the recorded property.
PendingOnlyWhenScheduledByInitialize ==
    calls = 0 => (PendingTimers # {} => ScheduledRecorded)

\* A crash timer is pending on a service that was never initialized.
PendingNeverInitialized ==
    /\ PendingTimers # {} /\ initCalls = 0 /\ ~isInitialized
    /\ sdkLog = <<>>

(***************************************************************************)
(* Properties of the checkout                                              *)
(***************************************************************************)

\* The positions of log at which the backend was handed a completed span
\* of the given name.
CompletedAt(log, name) ==
    {k \in DOMAIN log : log[k].call = "recordCompletedSpan"
                           /\ log[k].args.name = name}

\* The calls of log that the backend accepted for the session property key,
\* and what SessionStore(log) holds for it: the value of the last of them
\* when that is an add, NULL when there is none or it is a remove.
Writes(log, key) ==
    {k \in DOMAIN log :
        /\ log[k].call \in {"addSessionProperty", "removeSessionProperty"}
        /\ log[k].args[1] = key /\ ~log[k].threw}
LastWrite(log, key) ==
    CHOOSE k \in Writes(log, key) : \A j \in Writes(log, key) : j <= k
Held(log, key) ==
    IF Writes(log, key) = {} THEN NULL
    ELSE IF log[LastWrite(log, key)].call = "removeSessionProperty" THEN NULL
    ELSE log[LastWrite(log, key)].args[2]

\* Held reads SessionStore correctly.
HeldIsStored ==
    \A key \in PropKeys :
        IF key \in DOMAIN SessionStore(sdkLog)
        THEN Held(sdkLog, key) = SessionStore(sdkLog)[key].value
        ELSE Held(sdkLog, key) = NULL

\* C28: in the checkout every purchase_success span was preceded by a
\* purchase_attempt span and by the setting of current_order_id, and once
\* the checkout is confirmed the backend holds no current_order_id.
C28_AttemptBeforeSuccess ==
    /\ \A k \in CompletedAt(sdkLog, "purchase_success") :
          /\ \E a \in CompletedAt(sdkLog, "purchase_attempt") : a < k
          /\ \E p \in Sets(sdkLog, "current_order_id") : p < k
    /\ checkout.pc = "confirmation"
          => Held(sdkLog, "current_order_id") = NULL

\* What the code does instead: every purchase_attempt span comes after a
\* purchase_success span, no current_order_id was set before the first
\* purchase_success, and a confirmed checkout that set current_order_id
\* leaves it on the backend.
SuccessBeforeAttempt ==
    /\ \A a \in CompletedAt(sdkLog, "purchase_attempt") :
          \E k \in CompletedAt(sdkLog, "purchase_success") : k < a
    /\ \A k \in CompletedAt(sdkLog, "purchase_success") :
          (\A j \in CompletedAt(sdkLog, "purchase_success") : k <= j)
              => \A p \in Sets(sdkLog, "current_order_id") : k < p
    /\ (checkout.pc = "confirmation" /\ Sets(sdkLog, "current_order_id") # {})
          => Held(sdkLog, "current_order_id") # NULL

\* A checkout was confirmed on an initialized service.
ConfirmedInitialized ==
    checkout.pc = "confirmation" /\ isInitialized /\ tracer
        /\ CompletedAt(sdkLog, "purchase_success") # {}

(***************************************************************************)
(* Properties of the sign-in telemetry                                     *)
(***************************************************************************)

\* The positions of log at which the backend was handed an error log with
\* the given message.
ErrorLogsAt(log, message) ==
    {k \in DOMAIN log : log[k].call = "logMessage" /\ log[k].args[1] = message
                           /\ log[k].args[2] = "error"}

\* The step is a login that failed, a logout that was confirmed.
LoginFails == auth'.failed = auth.failed + 1
LogoutConfirmed == auth'.logouts = auth.logouts + 1

\* The number of login_failure spans, of 'Login failed' error logs and of
\* user_sign_out spans the step hands the backend.
NewLoginFailures == Cardinality(Added \cap CompletedAt(sdkLog', "login_failure"))
NewLoginFailedLogs == Cardinality(Added \cap ErrorLogsAt(sdkLog', "Login failed"))
NewSignOuts == Cardinality(Added \cap CompletedAt(sdkLog', "user_sign_out"))

\* C29: on an initialized service a login that fails hands the backend
\* exactly one login_failure span and exactly one 'Login failed' error log,
\* and a confirmed logout exactly one user_sign_out span.
C29_CountedOnce ==
    [][(isInitialized /\ tracer) =>
          /\ LoginFails => NewLoginFailures = 1 /\ NewLoginFailedLogs = 1
          /\ LogoutConfirmed => NewSignOuts = 1
      ]_vars

\* What the code does instead: a failed login is a password login and is
\* counted twice, a confirmed logout is counted twice, and no other step
\* reports a failed login or a sign-out.
CountedTwice ==
    [][(isInitialized /\ tracer) =>
          /\ LoginFails => /\ auth.method = "email"
                           /\ NewLoginFailures = 2 /\ NewLoginFailedLogs = 2
          /\ LogoutConfirmed => NewSignOuts = 2
          /\ ~LoginFails => NewLoginFailures = 0 /\ NewLoginFailedLogs = 0
          /\ ~LogoutConfirmed => NewSignOuts = 0
      ]_vars

\* A login has failed and a logout was confirmed on an initialized service.
FailedAndSignedOut ==
    isInitialized /\ tracer /\ auth.failed > 0 /\ auth.logouts > 0
        /\ CompletedAt(sdkLog, "login_failure") # {}
        /\ CompletedAt(sdkLog, "user_sign_out") # {}

(***************************************************************************)
(* Properties of the cart count                                            *)
(***************************************************************************)

\* The backend holds for cart_item_count the decimal string of the
\* totalItems of the cart its.
CountMatches(log, its) ==
    Held(log, "cart_item_count") = ToString(calculateCartTotals(its).totalItems)

\* The step is the payment of a checkout passing: processPayment resolves
\* and createOrder starts.
PaymentPasses == checkout.pc = "paying" /\ checkout'.pc = "ordering"

\* C30: on an initialized service, after every step that changes the cart
\* the session property cart_item_count is the decimal string of the
\* cart's totalItems, and once it matches the cart it keeps matching across
\* the steps of the cart and of a checkout in progress.
C30_CountFollowsCart ==
    [][isInitialized =>
          /\ items' # items => CountMatches(sdkLog', items')
          /\ CountMatches(sdkLog, items) => CountMatches(sdkLog', items')
      ]_vars

\* The part that holds: every step that changes the cart leaves a matching
\* count, and a matching count is kept by every step but the payment
\* passing over a cart that holds items, which leaves "0".
CountFollowsCartButPayment ==
    [][isInitialized =>
          /\ items' # items => CountMatches(sdkLog', items')
          /\ (CountMatches(sdkLog, items) /\ ~(PaymentPasses /\ items # <<>>))
                => CountMatches(sdkLog', items')
          /\ (PaymentPasses /\ items # <<>>)
                => /\ Held(sdkLog', "cart_item_count") = "0"
                   /\ calculateCartTotals(items').totalItems > 0
      ]_vars

\* A payment has passed on an initialized service while the cart holds
\* items and the backend holds a count of "0".
PaidWithItemsInCart ==
    isInitialized /\ checkout.pc = "ordering" /\ items # <<>>
        /\ Held(sdkLog, "cart_item_count") = "0"

====
